---- MODULE Spec2Model ----
(***************************************************************************)
(* A model of the ssds copy engine (ssds/storage.py: CopyClient), of the   *)
(* blob adapters it drives (ssds/blobstore/*.py), of the unordered         *)
(* checksums (ssds/checksum.py) and of the submission service              *)
(* (ssds/__init__.py: SSDS).                                               *)
(*                                                                         *)
(* Sizes are counted in MiB.  The content of an object is a sequence of    *)
(* blocks of BlockSize MiB each; a block is named by a natural number, and *)
(* the blocks of one object are pairwise distinct, so that a lost, doubled *)
(* or misplaced range of bytes changes the sequence.                       *)
(*                                                                         *)
(* MD5 and CRC32C are modelled as collision-free digests: a digest is the  *)
(* record of the algorithm and of what was digested.                       *)
(***************************************************************************)
EXTENDS Integers, Sequences, FiniteSets, TLC

\* ---------------------------------------------------------------- bounds

\* The largest object, in blocks.
MaxBlocks == 5

\* The number of copy / copy_compute_checksums calls of a with block of several
\* transfers, and the largest object of such a block, in blocks.
MaxTransfers == 2

MaxScopeBlocks == 3

\* The largest number of parts handed, in any order, to the unordered checksums and
\* to a multipart writer on their own.
MaxParts == 5

\* The largest number_of_attempts given to utils.retry.
MaxAttempts == 5

\* ------------------------------------------------ ssds/blobstore/__init__.py

\* The unit of every size of the model.
MiB == 1

AWS_MIN_CHUNK_SIZE == 64 * MiB

AWS_MAX_MULTIPART_COUNT == 10000

\* The granularity of object contents: two blocks fill one minimal chunk.
BlockSize == AWS_MIN_CHUNK_SIZE \div 2

\* math.ceil(a / b) for naturals a and b > 0
ceil(a, b) == (a + b - 1) \div b

get_s3_multipart_chunk_size(filesize) ==
    IF filesize <= AWS_MAX_MULTIPART_COUNT * AWS_MIN_CHUNK_SIZE
    THEN AWS_MIN_CHUNK_SIZE
    ELSE LET raw_part_size == ceil(filesize, AWS_MAX_MULTIPART_COUNT)
         IN  ((raw_part_size + MiB - 1) \div MiB) * MiB

\* len(data), in MiB
size_of(data) == Len(data) * BlockSize

\* data[offset : offset + length], offsets and lengths in MiB
Slice(data, offset, length) ==
    LET first == offset \div BlockSize
        last  == IF (offset + length) \div BlockSize < Len(data)
                 THEN (offset + length) \div BlockSize
                 ELSE Len(data)
    IN  IF first >= last THEN <<>> ELSE SubSeq(data, first + 1, last)

\* AsyncPartIterator._number_of_parts, the same expression in the local, the S3
\* and the GS iterator
\* A faulty count of parts: a last part that is not full is left out
number_of_parts_floor(size) == size \div get_s3_multipart_chunk_size(size)

number_of_parts(size) ==
    IF 0 < size THEN ceil(size, get_s3_multipart_chunk_size(size)) ELSE 1

\* AsyncPartIterator._get_part: the bytes chunk_size * part_number onwards, at
\* most chunk_size of them
get_part(data, part_number) ==
    LET chunk_size == get_s3_multipart_chunk_size(size_of(data))
    IN  [number |-> part_number,
         data   |-> Slice(data, part_number * chunk_size, chunk_size)]

\* --------------------------------- get_s3_multipart_chunk_size, in bytes
\*
\* The objects above are counted in MiB and stay far below the size at which the
\* chunk size grows.  For the arithmetic of get_s3_multipart_chunk_size itself a
\* file size is a Python int of bytes: the sequence of its digits to the base
\* 1000, the lowest first, zero the empty sequence.

BytesPerMiB == 1048576

NotChunked == [filesize |-> <<>>, chunk_size |-> <<>>]

RECURSIVE BigOf(_)
BigOf(n) == IF n = 0 THEN <<>> ELSE <<n % 1000>> \o BigOf(n \div 1000)

\* a + c
RECURSIVE BigAdd(_, _)
BigAdd(a, c) ==
    IF c = 0 THEN a
    ELSE IF a = <<>> THEN BigOf(c)
    ELSE <<(a[1] + c) % 1000>> \o BigAdd(Tail(a), (a[1] + c) \div 1000)

\* a * m + carry, m > 0
RECURSIVE BigMul(_, _, _)
BigMul(a, m, carry) ==
    IF a = <<>> THEN BigOf(carry)
    ELSE <<(a[1] * m + carry) % 1000>> \o BigMul(Tail(a), m, (a[1] * m + carry) \div 1000)

\* a - 1, a > 0
RECURSIVE BigPred(_)
BigPred(a) ==
    IF a[1] > 0
    THEN IF Len(a) = 1 /\ a[1] = 1 THEN <<>> ELSE <<a[1] - 1>> \o Tail(a)
    ELSE <<999>> \o BigPred(Tail(a))

\* a <= b
RECURSIVE BigLeq(_, _)
BigLeq(a, b) ==
    IF Len(a) # Len(b) THEN Len(a) < Len(b)
    ELSE IF a = <<>> THEN TRUE
    ELSE IF a[Len(a)] # b[Len(b)] THEN a[Len(a)] < b[Len(b)]
    ELSE BigLeq(SubSeq(a, 1, Len(a) - 1), SubSeq(b, 1, Len(b) - 1))

\* One step of the long division by d: hi is the quotient and the remainder of the
\* digits above digit
BigDivStep(hi, digit, d) ==
    [q |-> IF hi.q = <<>> /\ (hi.r * 1000 + digit) \div d = 0 THEN <<>>
           ELSE <<(hi.r * 1000 + digit) \div d>> \o hi.q,
     r |-> (hi.r * 1000 + digit) % d]

\* divmod(a, d) for 0 < d <= BytesPerMiB
RECURSIVE BigDivMod(_, _)
BigDivMod(a, d) ==
    IF a = <<>> THEN [q |-> <<>>, r |-> 0]
    ELSE BigDivStep(BigDivMod(Tail(a), d), a[1], d)

RECURSIVE Pow2(_)
Pow2(e) == IF e = 0 THEN 1 ELSE 2 * Pow2(e - 1)

\* 2^e for e >= 40
BigPow2(e) == BigMul(BigMul(BigOf(Pow2(e - 40)), BytesPerMiB, 0), BytesPerMiB, 0)

\* floor(log2(q)) for 2^40 <= q < 2^53
BigExponent(q) == 39 + Cardinality({e \in 40..52 : BigLeq(BigPow2(e), q)})

\* math.ceil(x) of the float x = q + r / d that the true division a / d gives, dm
\* being divmod(a, d), for d of AWS_MAX_MULTIPART_COUNT at most and q < 2^53.  The
\* division rounds to the nearest float of 53 bits, ties to even: below 2^40 floats
\* are less than 1 / d apart and q + r / d with r > 0 stays above q; from 2^e on,
\* e >= 40, they are 2^(e-52) apart and the quotient rounds to q itself when r / d
\* is at most half of that.
ceil_of_true_division(dm, d) ==
    IF dm.r = 0 THEN dm.q
    ELSE IF ~BigLeq(BigPow2(40), dm.q) THEN BigAdd(dm.q, 1)
    ELSE IF 2 * dm.r * Pow2(52 - BigExponent(dm.q)) <= d THEN dm.q
    ELSE BigAdd(dm.q, 1)

\* AWS_MIN_CHUNK_SIZE and AWS_MAX_MULTIPART_COUNT * AWS_MIN_CHUNK_SIZE, in bytes
MinChunkBytes == BigMul(BigOf(AWS_MIN_CHUNK_SIZE \div MiB), BytesPerMiB, 0)

MaxMinChunkedBytes == BigMul(MinChunkBytes, AWS_MAX_MULTIPART_COUNT, 0)

\* get_s3_multipart_chunk_size(filesize), filesize and the result in bytes
get_s3_multipart_chunk_size_bytes(filesize) ==
    IF BigLeq(filesize, MaxMinChunkedBytes) THEN MinChunkBytes
    ELSE BigMul(BigDivMod(BigAdd(ceil_of_true_division(
                                     BigDivMod(filesize, AWS_MAX_MULTIPART_COUNT),
                                     AWS_MAX_MULTIPART_COUNT),
                                 BytesPerMiB - 1),
                          BytesPerMiB).q,
                BytesPerMiB, 0)

\* ------------------------------------------------------- ssds/checksum.py

SSDS_MD5 == "SSDS_MD5"
SSDS_CRC32C == "SSDS_CRC32C"

\* md5(data).hexdigest()
md5(data) == [alg |-> "md5", body |-> <<data>>, n |-> 0]

\* crc32c(data).google_storage_crc32c()
google_storage_crc32c(data) == [alg |-> "crc32c", body |-> <<data>>, n |-> 0]

\* compute_composite_etag: the MD5 of the joined binary digests, then "-" and the
\* number of digests.  etags is a sequence of md5 digests.
compute_composite_etag(etags) ==
    [alg  |-> "md5",
     body |-> [i \in 1..Len(etags) |-> etags[i].body[1]],
     n    |-> Len(etags)]

\* sorted(pairs) for a sequence of records with distinct numbers
RECURSIVE SortByNumber(_)
SortByNumber(s) ==
    IF s = <<>> THEN <<>>
    ELSE LET m == CHOOSE i \in 1..Len(s) : \A j \in 1..Len(s) : s[i].number <= s[j].number
         IN  <<s[m]>> \o SortByNumber(SubSeq(s, 1, m - 1) \o SubSeq(s, m + 1, Len(s)))

\* S3EtagUnordered.update
S3EtagUnordered_update(checksums, chunk_number, data) ==
    Append(checksums, [number |-> chunk_number, md5 |-> md5(data)])

\* A faulty S3EtagUnordered.hexdigest: the digests in the order of the updates
S3EtagUnordered_hexdigest_unsorted(checksums) ==
    compute_composite_etag([i \in 1..Len(checksums) |-> checksums[i].md5])

\* S3EtagUnordered.hexdigest
S3EtagUnordered_hexdigest(checksums) ==
    LET sorted == SortByNumber(checksums)
    IN  compute_composite_etag([i \in 1..Len(sorted) |-> sorted[i].md5])

\* The loop of GScrc32cUnordered.update over sorted(self._chunks): chunks leave the
\* buffer for the running checksum while the smallest of them is the expected one.
RECURSIVE GScrc32c_drain(_)
GScrc32c_drain(cs) ==
    IF cs.chunks = {} THEN cs
    ELSE LET c == CHOOSE c \in cs.chunks : \A d \in cs.chunks : c.number <= d.number
         IN  IF c.number = cs.current_chunk_number
             THEN GScrc32c_drain([current_chunk_number |-> cs.current_chunk_number + 1,
                                  chunks   |-> cs.chunks \ {c},
                                  checksum |-> cs.checksum \o c.data])
             ELSE cs

\* GScrc32cUnordered.__init__: the running checksum is the data it has digested
GScrc32cUnordered_init == [current_chunk_number |-> 0, chunks |-> {}, checksum |-> <<>>]

\* A faulty GScrc32cUnordered.update: the running checksum takes the chunks as they come
GScrc32cUnordered_update_on_arrival(cs, chunk_number, data) ==
    [cs EXCEPT !.current_chunk_number = @ + 1, !.checksum = @ \o data]

\* GScrc32cUnordered.update
GScrc32cUnordered_update(cs, chunk_number, data) ==
    GScrc32c_drain([cs EXCEPT !.chunks = @ \cup {[number |-> chunk_number, data |-> data]}])

\* The loop of GScrc32cUnordered.hexdigest: what is left in the buffer, in order
RECURSIVE GScrc32c_flush(_, _)
GScrc32c_flush(chunks, checksum) ==
    IF chunks = {} THEN checksum
    ELSE LET c == CHOOSE c \in chunks : \A d \in chunks : c.number <= d.number
         IN  GScrc32c_flush(chunks \ {c}, checksum \o c.data)

\* GScrc32cUnordered.hexdigest
GScrc32cUnordered_hexdigest(cs) ==
    google_storage_crc32c(GScrc32c_flush(cs.chunks, cs.checksum))

\* ------------------------------------------------------------------ state

VARIABLES
    objs,                       \* the three stores: blob -> object
    billing_project,            \* GS: a billing project is set (requester pays)
    ignore_missing_checksums,   \* CopyClient._ignore_missing_checksums
    xfers,                      \* the copy / copy_compute_checksums calls so far
    completed,                  \* CopyClient._completed
    yielded,                    \* what CopyClient.completed() has yielded so far
    pc,                         \* where the thread that owns the client is
    mp,                         \* the multipart writer and checksums of that thread
    ncalls,                     \* how many transfers the with block requests
    bucket,                     \* the bucket of an SSDS deployment: key -> object
    result,                     \* how the last call of SSDS.upload / SSDS.copy ended
    dst_schema,                 \* the store of the deployment that sync copies to
    dst_bucket,                 \* the bucket of that deployment: key -> object
    synced,                     \* the last call of sync: what it yielded and wrote
    listed,                     \* what the last call of SSDS.list yielded
    chunked,                    \* a file size in bytes and the chunk size computed for it
    retrying,                   \* a call of a function wrapped by utils.retry
    asked,                      \* a call of copy_from_is_multipart and how it ended
    released,                   \* a call of the release command and how it ended
    racers,                     \* two calls that run side by side, and where each is
    pool,                       \* Executor._executor, the executors made, the threads that call it
    uploading                   \* an iteration of SSDS.upload: the generator and its tasks

\* No call of Executor has been made
NoPool == [executor |-> 0, created |-> 0]

\* SSDS.upload has not been called
NotUploading == [stage |-> "none"]

ssds_vars == <<dst_schema, dst_bucket, synced, listed>>

call_vars == <<chunked, retrying, asked, released, racers, pool, uploading>>

vars == <<objs, billing_project, ignore_missing_checksums, xfers, completed, yielded,
          pc, mp, ncalls, bucket, result, ssds_vars, call_vars>>

\* ------------------------------------------------------------ blob stores

Stores == {"local", "s3", "gs"}

CloudStores == {"s3", "gs"}

\* The key every store holds the source data under, a key no store holds, and the
\* fresh destination key of the n-th call (the tests draw a uuid4 per destination).
SrcKey == "src"
MissingKey == "missing"
DstKey(n) == "dst" \o ToString(n)

Keys == {SrcKey, MissingKey} \cup {DstKey(n) : n \in 1..MaxTransfers}

Blobs == [st : Stores, key : Keys]

NoObj == [exists |-> FALSE]

EmptyTags == [t \in {} |-> md5(<<>>)]

EmptyBucket == [k \in {} |-> NoObj]

\* No call of sync yet
NotSynced ==
    [id |-> <<>>, exception |-> "none", keys |-> {}, nones |-> 0, writes |-> {},
     again |-> FALSE, fresh |-> FALSE]

\* No call of the release command yet
NotReleased == [submission_id |-> <<>>, transfers |-> <<>>, exception |-> "none"]

\* No call of copy_from_is_multipart yet
NotAsked == [src |-> "none", dst |-> "none", outcome |-> "none"]

\* No call of a function wrapped by utils.retry yet
NotRetrying ==
    [exceptions |-> {}, number_of_attempts |-> 0, tries_remaining |-> 0, backoffs |-> 0,
     calls |-> <<>>, outcome |-> "none"]

NoChecksum == [alg |-> "none", body |-> <<>>, n |-> 0]

Obj(data, tags, native) == [exists |-> TRUE, data |-> data, tags |-> tags, native |-> native]

\* S3Blob.exists, GSBlob.exists
CloudBlob_exists(o, blob) == o[blob].exists

\* Blob.exists of a local blob: whether the file is there
LocalBlob_exists(o, blob) == o[blob].exists

exists(o, blob) ==
    IF blob.st = "local" THEN LocalBlob_exists(o, blob) ELSE CloudBlob_exists(o, blob)

\* Blob.size, of a blob that exists
size(o, blob) == size_of(o[blob].data)

\* S3Blob.get_tags, GSBlob.get_tags
get_tags(o, blob) == o[blob].tags

\* S3Blob.put_tags, GSBlob.put_tags
put_tags(o, blob, tags) == [o EXCEPT ![blob].tags = tags]

\* S3Blob.cloud_native_checksum (the ETag), GSBlob.cloud_native_checksum (crc32c)
cloud_native_checksum(o, blob) == o[blob].native

\* What the store computes for an object written in one request: S3 the MD5 of the
\* body as its ETag, GS the CRC32C.
NativeOneshot(st, data) ==
    IF st = "s3" THEN md5(data)
    ELSE IF st = "gs" THEN google_storage_crc32c(data)
    ELSE NoChecksum

\* S3Blob.put, GSBlob.put: a new object, without tags
put(o, blob, data) ==
    [o EXCEPT ![blob] = Obj(data, EmptyTags, NativeOneshot(blob.st, data))]

\* S3Blob.download, GSBlob.download, LocalBlob.download: the bytes in a local file
download(o, blob, path) ==
    IF blob = path THEN o
    ELSE [o EXCEPT ![path] = Obj(o[blob].data, EmptyTags, NoChecksum)]

\* S3Blob.copy_from_is_multipart, GSBlob.copy_from_is_multipart,
\* LocalBlob.copy_from_is_multipart
copy_from_is_multipart(o, dst, src) ==
    IF dst.st = "s3" THEN size(o, src) >= get_s3_multipart_chunk_size(size(o, src))
    ELSE IF dst.st = "gs" THEN billing_project
    ELSE FALSE

\* Whether dst.copy_from(src) goes through dst.multipart_writer(): in S3Blob.copy_from
\* when part_size < size, in GSBlob.copy_from when the source bucket has a user_project.
copy_from_uses_writer(o, dst, src) ==
    IF dst.st = "s3" THEN ~(get_s3_multipart_chunk_size(size(o, src)) >= size(o, src))
    ELSE IF dst.st = "gs" THEN billing_project
    ELSE FALSE

\* The branches of S3Blob.copy_from and GSBlob.copy_from that copy in the store:
\* CopyObject, and rewrite to its last token.  The copy carries the source's tags.
copy_from(o, dst, src) ==
    IF dst = src THEN o
    ELSE [o EXCEPT ![dst] = Obj(o[src].data, o[src].tags, NativeOneshot(dst.st, o[src].data))]

\* -------------------------------------------------- ssds/storage.py: functions

Tags2(s3_etag, gs_crc32c) ==
    [t \in {SSDS_MD5, SSDS_CRC32C} |-> IF t = SSDS_MD5 THEN s3_etag ELSE gs_crc32c]

\* _copy_to_local: the download, and empty tags
copy_to_local(o, src, dst) ==
    [objs |-> download(o, src, dst), tags |-> EmptyTags]

\* _copy_intra_cloud, where dst.copy_from(src) copies in the store
copy_intra_cloud(o, src, dst) ==
    [objs |-> copy_from(o, dst, src), tags |-> get_tags(o, src)]

\* copy_oneshot_passthrough.  No checksums (None) is the empty tag map: the caller
\* only asks whether the result is falsy.
copy_oneshot_passthrough(o, src, dst, compute_checksums) ==
    LET data == o[src].data
    IN  [objs |-> put(o, dst, data),
         tags |-> IF compute_checksums
                  THEN Tags2(md5(data), google_storage_crc32c(data))
                  ELSE EmptyTags]

\* checksum_checks of verify_checksums: the tag a destination of this store needs
checksum_checks(st) == IF st = "s3" THEN SSDS_MD5 ELSE SSDS_CRC32C

\* A faulty verify_checksums: nothing is compared
verify_checksums_nothing(o, dst, checksums, ignore_missing) == "ok"

\* A faulty verify_checksums: ignore_missing_checksums silences a wrong checksum too
verify_checksums_lenient(o, dst, checksums, ignore_missing) ==
    IF dst.st # "local"
    THEN IF ignore_missing THEN "warning"
         ELSE IF checksum_checks(dst.st) \notin DOMAIN checksums THEN "SSDSMissingChecksum"
         ELSE IF checksums[checksum_checks(dst.st)] # o[dst].native
              THEN "SSDSIncorrectChecksum"
              ELSE "ok"
    ELSE "ok"

\* verify_checksums: "ok", "warning" (logged, nothing raised) or the exception raised
verify_checksums(o, dst, checksums, ignore_missing) ==
    IF dst.st # "local"
    THEN LET cs_tag == checksum_checks(dst.st)
         IN  IF cs_tag \in DOMAIN checksums
             THEN IF checksums[cs_tag] # cloud_native_checksum(o, dst)
                  THEN "SSDSIncorrectChecksum"
                  ELSE "ok"
             ELSE IF ignore_missing THEN "warning" ELSE "SSDSMissingChecksum"
    ELSE "ok"

\* ------------------------------------------- ssds/storage.py: method selection

\* A faulty CopyClient.copy: an object of exactly one chunk goes multipart
copy_method_strict(o, src, dst) ==
    IF dst.st = "local" THEN "download"
    ELSE IF src.st = dst.st THEN "intra"
    ELSE IF size(o, src) < get_s3_multipart_chunk_size(size(o, src)) THEN "oneshot"
    ELSE "multipart"

\* The branches of CopyClient.copy for a source that exists
copy_method(o, src, dst) ==
    IF dst.st = "local" THEN "download"
    ELSE IF src.st = dst.st THEN "intra"
    ELSE IF size(o, src) <= get_s3_multipart_chunk_size(size(o, src)) THEN "oneshot"
    ELSE "multipart"

\* The branch of CopyClient.copy_compute_checksums
copy_compute_checksums_method(o, src) ==
    IF size(o, src) <= get_s3_multipart_chunk_size(size(o, src)) THEN "oneshot"
    ELSE "multipart"

\* A faulty client: every method goes through _do_copy_async
runs_async_always(o, src, dst, method) == TRUE

\* Whether the method goes through _do_copy_async (the pool) or calls _do_copy
\* on the calling thread: _download, _copy_intra_cloud, _copy_oneshot, _copy_multipart
runs_async(o, src, dst, method) ==
    IF method = "download" THEN TRUE
    ELSE IF method = "intra" THEN ~copy_from_is_multipart(o, dst, src)
    ELSE IF method = "oneshot" THEN TRUE
    ELSE FALSE

\* A faulty _copy_oneshot / _copy_multipart: checksums computed for every source
copy_computes_checksums_always(src) == TRUE

\* A faulty client: no copy computes checksums
copy_computes_checksums_never(src) == FALSE

\* compute_checksums of _copy_oneshot and _copy_multipart
copy_computes_checksums(src) == src.st = "local"

\* Whether the copy function of the transfer writes through a multipart writer
uses_writer(o, x) ==
    \/ x.method = "multipart"
    \/ x.method = "intra" /\ copy_from_uses_writer(o, x.dst, x.src)

\* ------------------------------------------------- ssds/concurrency.py

\* MAX_PASSTHROUGH_CONCURRENCY, the capacity of async_set(): of the part fetches of
\* one part iterator and of the part uploads of one S3 multipart writer
MAX_PASSTHROUGH_CONCURRENCY == 4

\* async_set(10) of CopyClient.__init__
COPY_CLIENT_CONCURRENCY == 10

\* ------------------------------------------------------------ CopyClient

Xfer(src, dst, op, method, async, compute, stage) ==
    [src |-> src, dst |-> dst, op |-> op, method |-> method, async |-> async,
     compute |-> compute, stage |-> stage, tags |-> EmptyTags, warned |-> FALSE]

\* An entry of CopyClient._completed: (src_blob, dst_blob, exception)
Tuple(x, exception) == [src |-> x.src, dst |-> x.dst, exception |-> exception]

MpIdle ==
    [i |-> 0, todo |-> {}, inflight |-> {}, parts |-> <<>>,
     s3etag |-> <<>>, gscrc |-> GScrc32cUnordered_init]

\* The tasks AsyncSet.put has handed to the pool that have not returned
running == {i \in 1..Len(xfers) : xfers[i].async /\ xfers[i].stage # "done"}

\* _do_copy_async (AsyncSet.put waits while the set is at capacity) or _do_copy on
\* the calling thread, which opens the multipart writer and the checksums where
\* the copy function starts with them.
Submit(x) ==
    IF x.async
    THEN /\ Cardinality(running) < COPY_CLIENT_CONCURRENCY
         /\ xfers' = Append(xfers, x)
         /\ UNCHANGED <<pc, mp>>
    ELSE /\ pc' = "sync"
         /\ IF uses_writer(objs, x)
            THEN /\ xfers' = Append(xfers, [x EXCEPT !.stage = "writing"])
                 /\ mp' = [MpIdle EXCEPT
                             !.i = Len(xfers) + 1,
                             !.todo = 0..(number_of_parts(size(objs, x.src)) - 1)]
            ELSE /\ xfers' = Append(xfers, x)
                 /\ UNCHANGED mp

\* CopyClient.copy(src_blob, dst_blob)
Copy(src, dst_st) ==
    /\ pc = "scope"
    /\ Len(xfers) < ncalls
    /\ LET dst == [st |-> dst_st, key |-> DstKey(Len(xfers) + 1)]
       IN  IF exists(objs, src)
           THEN LET method == copy_method(objs, src, dst)
                IN  Submit(Xfer(src, dst, "copy", method,
                                runs_async(objs, src, dst, method),
                                method \in {"oneshot", "multipart"}
                                    /\ copy_computes_checksums(src),
                                "queued"))
           ELSE \* logger.error: "Source does not exist!"
                /\ xfers' = Append(xfers, Xfer(src, dst, "copy", "none", FALSE, FALSE, "logged"))
                /\ UNCHANGED <<pc, mp>>
    /\ UNCHANGED <<objs, billing_project, ignore_missing_checksums, completed, yielded, ncalls, bucket, result, ssds_vars, call_vars>>

\* CopyClient.copy_compute_checksums(src_blob, dst_blob), dst_blob a cloud blob.
\* src_blob.size() raises BlobNotFoundError out of the call and of the with block.
CopyComputeChecksums(src, dst_st) ==
    /\ pc = "scope"
    /\ Len(xfers) < ncalls
    /\ dst_st \in CloudStores
    /\ LET dst == [st |-> dst_st, key |-> DstKey(Len(xfers) + 1)]
       IN  IF exists(objs, src)
           THEN LET method == copy_compute_checksums_method(objs, src)
                IN  Submit(Xfer(src, dst, "copy_compute_checksums", method,
                                method = "oneshot", TRUE, "queued"))
           ELSE /\ xfers' = Append(xfers, Xfer(src, dst, "copy_compute_checksums", "none",
                                               FALSE, TRUE, "raised"))
                /\ pc' = "exiting"
                /\ UNCHANGED mp
    /\ UNCHANGED <<objs, billing_project, ignore_missing_checksums, completed, yielded, ncalls, bucket, result, ssds_vars, call_vars>>

\* A faulty except branch: the exception is recorded and the transfer queued again
Fail_and_retry(i, exception) ==
    /\ completed' = completed \cup {Tuple(xfers[i], exception)}
    /\ xfers' = [xfers EXCEPT ![i].stage = "queued"]
    /\ pc' = pc

\* The except branch of _do_copy
Fail(i, exception) ==
    /\ completed' = completed \cup {Tuple(xfers[i], exception)}
    /\ xfers' = [xfers EXCEPT ![i].stage = "done"]
    /\ pc' = IF xfers[i].async THEN pc ELSE "scope"

\* _do_copy: tags = copy_func(src_blob, dst_blob, ...), for the copy functions that
\* are one request to the stores
RunCopyFunc(i) ==
    /\ i \in 1..Len(xfers)
    /\ xfers[i].stage = "queued"
    /\ LET x == xfers[i]
           r == IF x.method = "download" THEN copy_to_local(objs, x.src, x.dst)
                ELSE IF x.method = "intra" THEN copy_intra_cloud(objs, x.src, x.dst)
                ELSE copy_oneshot_passthrough(objs, x.src, x.dst, x.compute)
       IN  /\ objs' = r.objs
           /\ xfers' = [xfers EXCEPT ![i].stage = "copied", ![i].tags = r.tags]
    /\ UNCHANGED <<billing_project, ignore_missing_checksums, completed, yielded, pc, mp, ncalls, bucket, result, ssds_vars, call_vars>>

\* ------------------------------------------- part iterators, multipart writers

Min(S) == CHOOSE p \in S : \A q \in S : p <= q

\* Which part src_blob.parts() may yield next, todo being the parts not yet yielded.
\* LocalAsyncPartIterator.__iter__ and the loop of S3Blob.copy_from go up the part
\* numbers; S3AsyncPartIterator.__iter__ and GSAsyncPartIterator.__iter__ fetch through
\* an async_set() and yield a part when its fetch has finished.
may_yield(x, todo, p) ==
    IF x.src.st = "local" \/ (x.method = "intra" /\ x.dst.st = "s3")
    THEN p = Min(todo)
    ELSE Cardinality({q \in todo : q < p}) < MAX_PASSTHROUGH_CONCURRENCY

\* b"".join of the data of a sequence of parts
RECURSIVE Concat(_)
Concat(parts) ==
    IF parts = <<>> THEN <<>> ELSE Head(parts).data \o Concat(Tail(parts))

\* S3MultipartWriter._put_part and _put_part_copy: what the finished upload of a
\* part returns, with the bytes the store holds for it
S3MultipartWriter_put_part(part) ==
    [number |-> part.number + 1, etag |-> md5(part.data), data |-> part.data]

\* A faulty S3MultipartWriter.close: the parts stay in the order their uploads returned
S3MultipartWriter_unsorted(parts) == parts

\* self.parts.sort(key=lambda item: item['PartNumber']) of S3MultipartWriter.close
S3MultipartWriter_sort(parts) == SortByNumber(parts)

\* CompleteMultipartUpload: the store takes a part list in ascending part number
\* only; the object is the parts joined in the order of the list and its ETag is
\* the composite ETag of theirs.
complete_multipart_upload(o, dst, parts) ==
    IF \A k \in 1..(Len(parts) - 1) : parts[k].number < parts[k + 1].number
    THEN [ok   |-> TRUE,
          objs |-> [o EXCEPT ![dst] =
                       Obj(Concat(parts), EmptyTags,
                           compute_composite_etag([k \in 1..Len(parts) |-> parts[k].etag]))]]
    ELSE [ok |-> FALSE, objs |-> o]

\* S3MultipartWriter.close, once every part upload has returned
S3MultipartWriter_close(o, dst, parts) ==
    complete_multipart_upload(o, dst, S3MultipartWriter_sort(parts))

\* A faulty part uploader: the parts composed in the order they were put
GSMultipartWriter_order_of_arrival(parts) == parts

\* How the part uploader behind GSMultipartWriter orders the parts it composes
GSMultipartWriter_order(parts) == SortByNumber(parts)

\* GSMultipartWriter.close: the object is the parts joined in ascending number
GSMultipartWriter_close(o, dst, parts) ==
    LET data == Concat(GSMultipartWriter_order(parts))
    IN  [ok   |-> TRUE,
         objs |-> [o EXCEPT ![dst] = Obj(data, EmptyTags, google_storage_crc32c(data))]]

\* One turn of the loop of copy_multipart_passthrough (and of the loops of
\* S3Blob.copy_from and GSBlob.copy_from): the source yields part p, the checksums
\* take it, writer.put_part hands it to the writer.
MPPutPart(p) ==
    /\ pc = "sync"
    /\ mp.i # 0
    /\ p \in mp.todo
    /\ LET x    == xfers[mp.i]
           part == get_part(objs[x.src].data, p)
       IN  /\ may_yield(x, mp.todo, p)
           /\ x.dst.st = "s3" => Cardinality(mp.inflight) < MAX_PASSTHROUGH_CONCURRENCY
           /\ mp' = [mp EXCEPT
                       !.todo = @ \ {p},
                       !.s3etag = IF x.compute
                                  THEN S3EtagUnordered_update(@, part.number, part.data)
                                  ELSE @,
                       !.gscrc = IF x.compute
                                 THEN GScrc32cUnordered_update(@, part.number, part.data)
                                 ELSE @,
                       !.inflight = IF x.dst.st = "s3" THEN @ \cup {part} ELSE @,
                       !.parts = IF x.dst.st = "s3" THEN @ ELSE Append(@, part)]
    /\ UNCHANGED <<objs, billing_project, ignore_missing_checksums, xfers, completed,
                   yielded, pc, ncalls, bucket, result, ssds_vars, call_vars>>

\* A part upload of the S3 multipart writer returns; _collect_parts appends what
\* has returned to self.parts.
MPUploaded(part) ==
    /\ pc = "sync"
    /\ mp.i # 0
    /\ part \in mp.inflight
    /\ mp' = [mp EXCEPT !.inflight = @ \ {part},
                        !.parts = Append(@, S3MultipartWriter_put_part(part))]
    /\ UNCHANGED <<objs, billing_project, ignore_missing_checksums, xfers, completed,
                   yielded, pc, ncalls, bucket, result, ssds_vars, call_vars>>

\* The end of the with block of the writer: close, then the tags the copy
\* function returns.
MPClose ==
    /\ pc = "sync"
    /\ mp.i # 0
    /\ mp.todo = {}
    /\ mp.inflight = {}
    /\ LET i == mp.i
           x == xfers[i]
           r == IF x.dst.st = "s3" THEN S3MultipartWriter_close(objs, x.dst, mp.parts)
                ELSE GSMultipartWriter_close(objs, x.dst, mp.parts)
           tags == IF x.compute
                   THEN Tags2(S3EtagUnordered_hexdigest(mp.s3etag),
                              GScrc32cUnordered_hexdigest(mp.gscrc))
                   ELSE IF x.method = "intra" THEN get_tags(objs, x.src)
                   ELSE EmptyTags
       IN  /\ objs' = r.objs
           /\ mp' = MpIdle
           /\ IF r.ok
              THEN /\ xfers' = [xfers EXCEPT ![i].stage = "copied", ![i].tags = tags]
                   /\ UNCHANGED <<completed, pc>>
              ELSE Fail(i, "ClientError")
    /\ UNCHANGED <<billing_project, ignore_missing_checksums, yielded, ncalls, bucket, result, ssds_vars, call_vars>>

\* ------------------------------------------------- the rest of _do_copy

\* tags = tags or src_blob.get_tags(); verify_checksums(...)
Verify(i) ==
    /\ i \in 1..Len(xfers)
    /\ xfers[i].stage = "copied"
    /\ xfers[i].dst.st # "local"
    /\ LET x    == xfers[i]
           tags == IF x.tags # EmptyTags THEN x.tags ELSE get_tags(objs, x.src)
           r    == verify_checksums(objs, x.dst, tags, ignore_missing_checksums)
       IN  IF r \in {"ok", "warning"}
           THEN /\ xfers' = [xfers EXCEPT ![i].stage = "verified", ![i].tags = tags,
                                          ![i].warned = (r = "warning")]
                /\ UNCHANGED <<completed, pc>>
           ELSE /\ Fail(i, r)
    /\ UNCHANGED <<objs, billing_project, ignore_missing_checksums, yielded, mp, ncalls, bucket, result, ssds_vars, call_vars>>

\* dst_blob.put_tags(tags)
PutTags(i) ==
    /\ i \in 1..Len(xfers)
    /\ xfers[i].stage = "verified"
    /\ objs' = put_tags(objs, xfers[i].dst, xfers[i].tags)
    /\ xfers' = [xfers EXCEPT ![i].stage = "tagged"]
    /\ UNCHANGED <<billing_project, ignore_missing_checksums, completed, yielded, pc, mp, ncalls, bucket, result, ssds_vars, call_vars>>

\* self._completed.add((src_blob, dst_blob, None)).  _do_copy has returned: a call
\* on the calling thread gives the thread back to the with block.
Record(i) ==
    /\ i \in 1..Len(xfers)
    /\ \/ xfers[i].stage = "tagged"
       \/ xfers[i].stage = "copied" /\ xfers[i].dst.st = "local"
    /\ completed' = completed \cup {Tuple(xfers[i], "None")}
    /\ xfers' = [xfers EXCEPT ![i].stage = "done"]
    /\ pc' = IF xfers[i].async THEN pc ELSE "scope"
    /\ UNCHANGED <<objs, billing_project, ignore_missing_checksums, yielded, mp, ncalls, bucket, result, ssds_vars, call_vars>>

\* A faulty pop: the tuple stays in the set
set_pop_keeps(S, t) == S

\* self._completed.pop()
set_pop(S, t) == S \ {t}

\* One turn of the loop of CopyClient.completed(): pop a tuple, yield it.  The thread
\* that owns the client calls it, in the with block or after it.
Completed ==
    /\ pc \in {"scope", "exited"}
    /\ \E t \in completed :
         /\ completed' = set_pop(completed, t)
         /\ yielded' = Append(yielded, t)
    /\ UNCHANGED <<objs, billing_project, ignore_missing_checksums, xfers, pc, mp, ncalls, bucket, result, ssds_vars, call_vars>>

\* The with block ends
LeaveScope ==
    /\ pc = "scope"
    /\ pc' = "exiting"
    /\ UNCHANGED <<objs, billing_project, ignore_missing_checksums, xfers, completed,
                   yielded, mp, ncalls, bucket, result, ssds_vars, call_vars>>

\* A faulty __exit__: it waits for nothing
consume_done_at_once == TRUE

\* What AsyncSet.consume() waits for
consume_done == running = {}

\* CopyClient.__exit__ returns: self._async_set.consume() has yielded every task
Exit ==
    /\ pc = "exiting"
    /\ consume_done
    /\ pc' = "exited"
    /\ UNCHANGED <<objs, billing_project, ignore_missing_checksums, xfers, completed,
                   yielded, mp, ncalls, bucket, result, ssds_vars, call_vars>>

\* ------------------------------------------------------------ specification

\* The data of the test fixtures: n blocks
Data(n) == [k \in 1..n |-> k]

\* The parts of data, in ascending part number
PartsOf(data) ==
    [k \in 1..number_of_parts(size_of(data)) |-> get_part(data, k - 1)]

\* The tags BlobStore.upload_object attaches to an object it uploads
upload_object_tags(data) ==
    Tags2(IF get_s3_multipart_chunk_size(size_of(data)) >= size_of(data)
          THEN md5(data)
          ELSE compute_composite_etag([k \in 1..Len(PartsOf(data)) |-> md5(PartsOf(data)[k].data)]),
          google_storage_crc32c(data))

\* What a cloud source may carry as tags: none, those of upload_object, those and a
\* tag of the user's, those of other data, or SSDS_MD5 alone
SourceTags(data) ==
    LET t == upload_object_tags(data)
    IN  { EmptyTags,
          t,
          [k \in {SSDS_MD5, SSDS_CRC32C, "owner"} |->
              IF k = "owner" THEN md5(<<0>>) ELSE t[k]],
          Tags2(md5(<<0>>), google_storage_crc32c(<<0>>)),
          [k \in {SSDS_MD5} |-> t[k]] }

\* TestData.uploaded: the same data under the same key in every store
Uploaded(n, tags) ==
    [b \in Blobs |->
        IF b.key # SrcKey THEN NoObj
        ELSE IF b.st = "local" THEN Obj(Data(n), EmptyTags, NoChecksum)
        ELSE Obj(Data(n), tags,
                 IF b.st = "s3" THEN upload_object_tags(Data(n))[SSDS_MD5]
                 ELSE google_storage_crc32c(Data(n)))]

\* CopyClient.__init__, in front of stores that hold the source data
NewClient ==
    /\ billing_project \in BOOLEAN
    /\ ignore_missing_checksums \in BOOLEAN
    /\ xfers = <<>>
    /\ completed = {}
    /\ yielded = <<>>
    /\ pc = "scope"
    /\ mp = MpIdle
    /\ bucket = EmptyBucket
    /\ result = "none"
    /\ dst_schema = "gs"
    /\ dst_bucket = EmptyBucket
    /\ synced = NotSynced
    /\ listed = <<>>
    /\ pool = NoPool
    /\ uploading = NotUploading
    /\ chunked = NotChunked
    /\ retrying = NotRetrying
    /\ asked = NotAsked
    /\ released = NotReleased
    /\ racers = <<>>

\* A with block of one transfer, over every size and every tag map of the source
Init ==
    /\ \E n \in 0..MaxBlocks : \E tags \in SourceTags(Data(n)) : objs = Uploaded(n, tags)
    /\ NewClient
    /\ ncalls = 1

\* A with block of MaxTransfers transfers, of sources that carry no tags: the copies
\* between the clouds fail or pass on ignore_missing_checksums, the others pass
ScopeInit ==
    /\ \E n \in 0..MaxScopeBlocks : objs = Uploaded(n, EmptyTags)
    /\ NewClient
    /\ ncalls = MaxTransfers

Sources == [st : Stores, key : {SrcKey, MissingKey}]

Next ==
    \/ \E src \in Sources, dst_st \in Stores : Copy(src, dst_st)
    \/ \E src \in Sources, dst_st \in Stores : CopyComputeChecksums(src, dst_st)
    \/ \E i \in 1..MaxTransfers : RunCopyFunc(i)
    \/ \E p \in 0..MaxBlocks : MPPutPart(p)
    \/ \E part \in mp.inflight : MPUploaded(part)
    \/ MPClose
    \/ \E i \in 1..MaxTransfers : Verify(i)
    \/ \E i \in 1..MaxTransfers : PutTags(i)
    \/ \E i \in 1..MaxTransfers : Record(i)
    \/ Completed
    \/ LeaveScope
    \/ Exit

Spec == Init /\ [][Next]_vars

\* The steps of the pool thread that runs the i-th transfer
Task(i) ==
    /\ i \in 1..Len(xfers)
    /\ xfers[i].async
    /\ (RunCopyFunc(i) \/ Verify(i) \/ PutTags(i) \/ Record(i))

\* The pool threads are scheduled fairly, and so is the thread in __exit__
FairSpec ==
    /\ ScopeInit
    /\ [][Next]_vars
    /\ \A i \in 1..MaxTransfers : WF_vars(Task(i))
    /\ WF_vars(Exit)

\* ------------------------------------------------- ssds/__init__.py: SSDS

\* Strings are sequences of characters.

MAX_KEY_LENGTH == 1024

\* SSDS.prefix
prefix == <<"s", "u", "b", "m", "i", "s", "s", "i", "o", "n", "s">>

\* SSDS._name_delimeter
name_delimeter == <<"-", "-">>

\* The code points of the characters of the model
Ord ==
    [c \in {" ", "+", "-", "/", "a", "b", "f", "g", "i", "m", "n", "o", "s", "u", "x", "y"} |->
        CASE c = " " -> 32 [] c = "+" -> 43 [] c = "-" -> 45 [] c = "/" -> 47
          [] c = "a" -> 97 [] c = "b" -> 98 [] c = "f" -> 102 [] c = "g" -> 103
          [] c = "i" -> 105 [] c = "m" -> 109 [] c = "n" -> 110 [] c = "o" -> 111
          [] c = "s" -> 115 [] c = "u" -> 117 [] c = "x" -> 120 [] c = "y" -> 121]

\* str.startswith
startswith(str, pfx) == Len(pfx) <= Len(str) /\ SubSeq(str, 1, Len(pfx)) = pfx

\* The first place from i on where sep occurs in str, 0 when there is none
RECURSIVE find(_, _, _)
find(str, sep, i) ==
    IF i + Len(sep) - 1 > Len(str) THEN 0
    ELSE IF SubSeq(str, i, i + Len(sep) - 1) = sep THEN i
    ELSE find(str, sep, i + 1)

\* sep in str
contains(str, sep) == find(str, sep, 1) # 0

\* The first place from i upwards, and the last from i downwards, that holds a
\* character outside chars
RECURSIVE lskip(_, _, _)
lskip(str, chars, i) ==
    IF i > Len(str) THEN i
    ELSE IF str[i] \in chars THEN lskip(str, chars, i + 1) ELSE i

RECURSIVE rskip(_, _, _)
rskip(str, chars, i) ==
    IF i < 1 THEN i
    ELSE IF str[i] \in chars THEN rskip(str, chars, i - 1) ELSE i

\* str.strip(chars): the characters of the set chars leave both ends of str
strip(str, chars) ==
    IF lskip(str, chars, 1) > Len(str) THEN <<>>
    ELSE SubSeq(str, lskip(str, chars, 1), rskip(str, chars, Len(str)))

\* str.split(sep, 1): one string when sep does not occur, else what is before and
\* what is after its first occurrence
split(str, sep) ==
    IF ~contains(str, sep) THEN <<str>>
    ELSE <<SubSeq(str, 1, find(str, sep, 1) - 1),
           SubSeq(str, find(str, sep, 1) + Len(sep), Len(str))>>

\* The first place where a and b differ, one of them ending included
first_difference(a, b) ==
    LET common  == IF Len(a) < Len(b) THEN Len(a) ELSE Len(b)
        differs == {i \in 1..common : a[i] # b[i]}
    IN  IF differs = {} THEN common + 1
        ELSE CHOOSE i \in differs : \A j \in differs : i <= j

\* The order the stores list keys in: by code point, a prefix before what extends it
key_before(a, b) ==
    LET i == first_difference(a, b)
    IN  IF i > Len(a) THEN i <= Len(b)
        ELSE IF i > Len(b) THEN FALSE
        ELSE Ord[a[i]] < Ord[b[i]]

\* BlobStore.list(prefix): the keys of the bucket that start with the prefix
blobstore_list(b, pfx) == {k \in DOMAIN b : startswith(k, pfx)}

\* The first blob the listing yields
first_listed(listing) == CHOOSE k \in listing : \A j \in listing : j = k \/ key_before(k, j)

\* The unpacking "ssds_name, _ = parts.split('/', 1)" of SSDS.get_submission_name
name_of_parts(parts) ==
    IF Len(parts) # 2 THEN [exception |-> "ValueError", name |-> <<>>]
    ELSE [exception |-> "None", name |-> parts[1]]

\* The unpacking "_, parts = ssds_key.split(SSDS._name_delimeter, 1)"
name_of_halves(halves) ==
    IF Len(halves) # 2 THEN [exception |-> "ValueError", name |-> <<>>]
    ELSE name_of_parts(split(halves[2], <<"/">>))

\* The name the first blob of a listing gives, None (the empty string) for an
\* empty listing
name_of_listing(listing) ==
    IF listing = {} THEN [exception |-> "None", name |-> <<>>]
    ELSE name_of_halves(
             split(strip(first_listed(listing),
                         {prefix[i] : i \in 1..Len(prefix)} \cup {"/"}),
                   name_delimeter))

\* SSDS.get_submission_name: the name (the empty string for None), or that the
\* unpacking of a split raised ValueError
get_submission_name(b, submission_id) ==
    name_of_listing(blobstore_list(b, prefix \o <<"/">> \o submission_id))

\* The branches of SSDS._check_name_exists on the existing name
check_name(existing, name) ==
    IF existing.exception # "None" THEN existing
    ELSE IF name = <<>>
         THEN IF existing.name = <<>>
              THEN [exception |-> "ValueError", name |-> <<>>]
              ELSE [exception |-> "None", name |-> existing.name]
         ELSE IF existing.name # <<>> /\ existing.name # name
              THEN [exception |-> "ValueError", name |-> <<>>]
              ELSE [exception |-> "None", name |-> name]

\* SSDS._check_name_exists
check_name_exists(b, submission_id, name) ==
    check_name(get_submission_name(b, submission_id), name)

\* SSDS._compose_ssds_key
compose_ssds_key(submission_id, submission_name, path) ==
    LET ssds_key == submission_id \o name_delimeter \o submission_name \o <<"/">>
                    \o strip(path, {"/"})
    IN  IF MAX_KEY_LENGTH <= Len(prefix \o ssds_key)
        THEN [exception |-> "ValueError", ssds_key |-> <<>>]
        ELSE [exception |-> "None", ssds_key |-> ssds_key]

\* The checksums SSDS._upload_oneshot and SSDS._upload_multipart tag an object with
ssds_tags(data) ==
    Tags2(IF get_s3_multipart_chunk_size(size_of(data)) >= size_of(data)
          THEN md5(data)
          ELSE S3EtagUnordered_hexdigest(
                   [k \in 1..number_of_parts(size_of(data)) |->
                       [number |-> k - 1, md5 |-> md5(get_part(data, k - 1).data)]]),
          google_storage_crc32c(data))

\* SSDS._upload_oneshot, SSDS._upload_multipart: the object and its tags under
\* prefix/ssds_key
ssds_put(b, ssds_key, data) ==
    LET key == prefix \o <<"/">> \o ssds_key
    IN  [k \in DOMAIN b \cup {key} |->
            IF k = key THEN [data |-> data, tags |-> ssds_tags(data)] ELSE b[k]]

\* The loop of SSDS._upload_tree over the listing, dst_keys in the order of the
\* listing: [exception, bucket]
RECURSIVE upload_files(_, _, _, _, _)
upload_files(b, dst_keys, submission_id, name, data) ==
    IF dst_keys = <<>> THEN [exception |-> "None", bucket |-> b]
    ELSE LET c == compose_ssds_key(submission_id, name, Head(dst_keys))
         IN  IF c.exception # "None" THEN [exception |-> c.exception, bucket |-> b]
             ELSE upload_files(ssds_put(b, c.ssds_key, data), Tail(dst_keys),
                               submission_id, name, data)

\* SSDS._upload_tree
upload_tree(b, dst_keys, submission_id, name, data) ==
    IF " " \in {name[i] : i \in 1..Len(name)} \/ contains(name, name_delimeter)
    THEN [exception |-> "AssertionError", bucket |-> b]
    ELSE upload_files(b, dst_keys, submission_id, name, data)

client_vars ==
    <<objs, billing_project, ignore_missing_checksums, xfers, completed, yielded, pc, mp,
      ncalls>>

\* SSDS.upload(src_url, submission_id, name), iterated to its end: tree is the keys
\* of the files under src_url, relative to it, and every file holds data
SSDS_upload(tree, submission_id, name, data) ==
    /\ LET checked == check_name_exists(bucket, submission_id, name)
       IN  IF checked.exception # "None"
           THEN /\ result' = checked.exception
                /\ UNCHANGED bucket
           ELSE LET r == upload_tree(bucket, tree, submission_id, checked.name, data)
                IN  /\ result' = r.exception
                    /\ bucket' = r.bucket
    /\ UNCHANGED <<client_vars, ssds_vars, call_vars>>

\* SSDS.copy(src_url, submission_id, name, submission_path) of a blob that holds data
SSDS_copy(submission_id, name, submission_path, data) ==
    /\ LET checked == check_name_exists(bucket, submission_id, name)
       IN  IF checked.exception # "None"
           THEN /\ result' = checked.exception
                /\ UNCHANGED bucket
           ELSE LET c == compose_ssds_key(submission_id, checked.name, submission_path)
                IN  IF c.exception # "None"
                    THEN /\ result' = c.exception
                         /\ UNCHANGED bucket
                    ELSE /\ result' = "None"
                         /\ bucket' = ssds_put(bucket, c.ssds_key, data)
    /\ UNCHANGED <<client_vars, ssds_vars, call_vars>>

\* The loop of SSDS.list over the listing, in the order of the listing: a key that
\* does not unpack is passed over, a pair is yielded when its id is not the one
\* before
RECURSIVE list_keys(_, _, _)
list_keys(listing, prev_submission_id, pairs) ==
    IF listing = {} THEN pairs
    ELSE LET key     == first_listed(listing)
             halves  == split(strip(key, {prefix[i] : i \in 1..Len(prefix)} \cup {"/"}),
                              name_delimeter)
             unpacks == Len(halves) = 2 /\ Len(split(halves[2], <<"/">>)) = 2
         IN  IF unpacks /\ halves[1] # prev_submission_id
             THEN list_keys(listing \ {key}, halves[1],
                            Append(pairs, <<halves[1], split(halves[2], <<"/">>)[1]>>))
             ELSE list_keys(listing \ {key}, prev_submission_id, pairs)

\* SSDS.list, iterated to its end
SSDS_list ==
    /\ listed' = list_keys(blobstore_list(bucket, prefix), <<>>, <<>>)
    /\ result' = "Listed"
    /\ UNCHANGED <<client_vars, bucket, dst_schema, dst_bucket, synced, call_vars>>

\* ------------------------------------------------------------ ssds.sync

\* _already_synced of sync
already_synced(src, dst, key) ==
    IF key \notin DOMAIN dst THEN FALSE
    ELSE IF dst[key].tags # src[key].tags THEN FALSE
    ELSE TRUE

\* A faulty put: the object is made without the bytes
sync_put_nothing(schema, data) ==
    [data |-> <<>>, tags |-> EmptyTags, native |-> NativeOneshot(schema, <<>>)]

\* dst.blobstore.blob(key).put(data) of _sync_oneshot: the object the store holds
sync_put(schema, data) ==
    [data |-> data, tags |-> EmptyTags, native |-> NativeOneshot(schema, data)]

\* The with block of the multipart writer in sync: the parts of the source put one
\* after another, then close; the object the store holds
sync_multipart(schema, data) ==
    LET blob  == [st |-> schema, key |-> DstKey(1)]
        o     == [b \in {blob} |-> NoObj]
        parts == PartsOf(data)
        r     == IF schema = "s3"
                 THEN S3MultipartWriter_close(
                          o, blob, [k \in 1..Len(parts) |-> S3MultipartWriter_put_part(parts[k])])
                 ELSE GSMultipartWriter_close(o, blob, parts)
    IN  [data |-> r.objs[blob].data, tags |-> EmptyTags, native |-> r.objs[blob].native]

\* A faulty _verify_and_tag: the destination is left without the tags of the source
verify_and_tag_untagged(schema, src_tags, obj) == [exception |-> "None", obj |-> obj]

\* _verify_and_tag of sync: [exception, obj]
verify_and_tag(schema, src_tags, obj) ==
    LET tag == IF schema = "gs" THEN SSDS_CRC32C ELSE SSDS_MD5
    IN  IF tag \notin DOMAIN src_tags THEN [exception |-> "KeyError", obj |-> obj]
        ELSE IF src_tags[tag] # obj.native THEN [exception |-> "AssertionError", obj |-> obj]
        ELSE [exception |-> "None", obj |-> [obj EXCEPT !.tags = src_tags]]

\* The loop of sync over the listing of the source, in the order of the listing, to
\* the first exception: [exception, bucket, keys, skipped, writes], keys what the
\* generator yields, skipped the one-part objects found already synced (the result
\* of _sync_oneshot is None), writes the objects put to the destination
RECURSIVE sync_listing(_, _, _, _, _)
sync_listing(src, dst, schema, listing, done) ==
    IF listing = {}
    THEN [exception |-> "None", bucket |-> dst, keys |-> done.keys,
          skipped |-> done.skipped, writes |-> done.writes]
    ELSE LET key     == first_listed(listing)
             oneshot == Len(PartsOf(src[key].data)) = 1
         IN  IF already_synced(src, dst, key)
             THEN sync_listing(src, dst, schema, listing \ {key},
                               [done EXCEPT !.skipped = IF oneshot THEN @ \cup {key} ELSE @])
             ELSE LET v  == verify_and_tag(schema, src[key].tags,
                                           IF oneshot THEN sync_put(schema, src[key].data)
                                           ELSE sync_multipart(schema, src[key].data))
                      d1 == [k \in DOMAIN dst \cup {key} |-> IF k = key THEN v.obj ELSE dst[k]]
                  IN  IF v.exception # "None"
                      THEN [exception |-> v.exception, bucket |-> d1, keys |-> done.keys,
                            skipped |-> done.skipped, writes |-> done.writes \cup {key}]
                      ELSE sync_listing(src, d1, schema, listing \ {key},
                                        [done EXCEPT !.keys = @ \cup {key},
                                                     !.writes = @ \cup {key}])

\* sync(submission_id, src, dst), iterated to its end
sync(src, dst, schema, submission_id) ==
    sync_listing(src, dst, schema, blobstore_list(src, prefix \o <<"/">> \o submission_id),
                 [keys |-> {}, skipped |-> {}, writes |-> {}])

\* A call of sync from the deployment of bucket to the one of dst_bucket.  The loop
\* "for synced_key in oneshot_uploads.consume_finished(): yield synced_key" yields
\* the None of every skipped one-part object whose task has finished by then; the
\* final loop over consume() leaves the None out.
Sync(submission_id) ==
    LET r == sync(bucket, dst_bucket, dst_schema, submission_id)
    IN  \E nones \in SUBSET r.skipped :
            /\ dst_bucket' = r.bucket
            /\ synced' = [id        |-> submission_id,
                          exception |-> r.exception,
                          keys      |-> r.keys,
                          nones     |-> Cardinality(nones),
                          writes    |-> r.writes,
                          again     |-> result = "Synced" /\ synced.id = submission_id,
                          fresh     |-> dst_bucket = EmptyBucket]
            /\ result' = IF r.exception = "None" THEN "Synced" ELSE r.exception
            /\ UNCHANGED <<client_vars, bucket, dst_schema, listed, call_vars>>

\* The submission ids, the names (the empty one is no name) and the paths of the calls
SubmissionIds == {<<"a">>, <<"a", "+">>}

Names == {<<>>, <<"x">>, <<"y">>}

Paths == {<<"f">>, <<"/", "g">>}

Trees == {<<<<"f">>>>, <<<<"f">>, <<"/", "g">>>>}

\* A new deployment: the bucket is empty
SSDSInit ==
    /\ objs = Uploaded(0, EmptyTags)
    /\ billing_project = FALSE
    /\ ignore_missing_checksums = FALSE
    /\ xfers = <<>>
    /\ completed = {}
    /\ yielded = <<>>
    /\ pc = "scope"
    /\ mp = MpIdle
    /\ ncalls = 0
    /\ bucket = EmptyBucket
    /\ result = "none"
    /\ dst_schema = "gs"
    /\ dst_bucket = EmptyBucket
    /\ synced = NotSynced
    /\ listed = <<>>
    /\ pool = NoPool
    /\ uploading = NotUploading
    /\ chunked = NotChunked
    /\ retrying = NotRetrying
    /\ asked = NotAsked
    /\ released = NotReleased
    /\ racers = <<>>

SSDSNext ==
    \/ \E tree \in Trees, id \in SubmissionIds, name \in Names, n \in {1, MaxScopeBlocks} :
         SSDS_upload(tree, id, name, Data(n))
    \/ \E id \in SubmissionIds, name \in Names, path \in Paths, n \in {1, MaxScopeBlocks} :
         SSDS_copy(id, name, path, Data(n))

SSDSSpec == SSDSInit /\ [][SSDSNext]_vars

\* Calls whose names are not all well-formed: two ids neither of which extends the
\* other, and names that hold a space or the name delimiter
DistinctIds == {<<"a">>, <<"b">>}

MalformedNames == {<<" ">>, <<"x", "-", "-", "y">>}

NamesNext ==
    \/ \E tree \in Trees, id \in DistinctIds, name \in {<<>>, <<"x">>} \cup MalformedNames,
          n \in {1, MaxScopeBlocks} :
         SSDS_upload(tree, id, name, Data(n))
    \/ \E id \in DistinctIds, name \in {<<>>, <<"x">>} \cup MalformedNames, path \in Paths,
          n \in {1, MaxScopeBlocks} :
         SSDS_copy(id, name, path, Data(n))

NamesSpec == SSDSInit /\ [][NamesNext]_vars

\* Calls whose keys come close to MAX_KEY_LENGTH: a path of n characters, and the
\* lengths that bring the key submissions/<id>--<name>/<path> of a one-character id
\* and name to one less than MAX_KEY_LENGTH, to it, and to one more
LongPath(n) == [i \in 1..n |-> "f"]

KeyLength(submission_id, name, path) ==
    Len(prefix \o <<"/">> \o submission_id \o name_delimeter \o name \o <<"/">> \o path)

PathLengths ==
    {MAX_KEY_LENGTH - KeyLength(<<"a">>, <<"x">>, <<>>) + d : d \in {-1, 0, 1}}

LongPaths == {LongPath(n) : n \in PathLengths}

LongTrees == {<<p>> : p \in LongPaths} \cup {<<<<"b">>, p>> : p \in LongPaths}

KeysNext ==
    \/ \E tree \in LongTrees, id \in DistinctIds, name \in {<<>>, <<"x">>} :
         SSDS_upload(tree, id, name, Data(MaxScopeBlocks))
    \/ \E id \in DistinctIds, name \in {<<>>, <<"x">>}, path \in LongPaths :
         SSDS_copy(id, name, path, Data(MaxScopeBlocks))

KeysSpec == SSDSInit /\ [][KeysNext]_vars

\* Two deployments, the destination in either cloud and empty at first: uploads to
\* the source, and syncs of a submission to the destination
SyncInit ==
    /\ objs = Uploaded(0, EmptyTags)
    /\ billing_project = FALSE
    /\ ignore_missing_checksums = FALSE
    /\ xfers = <<>>
    /\ completed = {}
    /\ yielded = <<>>
    /\ pc = "scope"
    /\ mp = MpIdle
    /\ ncalls = 0
    /\ bucket = EmptyBucket
    /\ result = "none"
    /\ dst_schema \in CloudStores
    /\ dst_bucket = EmptyBucket
    /\ synced = NotSynced
    /\ listed = <<>>
    /\ pool = NoPool
    /\ uploading = NotUploading
    /\ chunked = NotChunked
    /\ retrying = NotRetrying
    /\ asked = NotAsked
    /\ released = NotReleased
    /\ racers = <<>>

SyncNext ==
    \/ \E id \in SubmissionIds, n \in {1, MaxScopeBlocks} :
         SSDS_upload(<<<<"f">>>>, id, <<"x">>, Data(n))
    \/ \E id \in SubmissionIds : Sync(id)

SyncSpec == SyncInit /\ [][SyncNext]_vars

\* Uploads of trees under two ids neither of which extends the other, and listings
ListNext ==
    \/ \E tree \in Trees, id \in DistinctIds, n \in {1, MaxScopeBlocks} :
         SSDS_upload(tree, id, <<"x">>, Data(n))
    \/ SSDS_list

ListSpec == SSDSInit /\ [][ListNext]_vars

\* ------------------------- the checksums and the S3 writer on their own

\* The object whose parts are handed over, and the blob the writer writes
PartsSource == [st |-> "s3", key |-> SrcKey]

WriterBlob == [st |-> "s3", key |-> DstKey(1)]

\* An object of 1 to MaxParts parts, the last part full or not; none handed over yet
PartsInit ==
    /\ \E n \in 1..(2 * MaxParts) :
          /\ objs = Uploaded(n, EmptyTags)
          /\ mp = [MpIdle EXCEPT !.todo = 0..(number_of_parts(size_of(Data(n))) - 1)]
    /\ billing_project = FALSE
    /\ ignore_missing_checksums = FALSE
    /\ xfers = <<>>
    /\ completed = {}
    /\ yielded = <<>>
    /\ pc = "parts"
    /\ ncalls = 0
    /\ bucket = EmptyBucket
    /\ result = "none"
    /\ dst_schema = "gs"
    /\ dst_bucket = EmptyBucket
    /\ synced = NotSynced
    /\ listed = <<>>
    /\ pool = NoPool
    /\ uploading = NotUploading
    /\ chunked = NotChunked
    /\ retrying = NotRetrying
    /\ asked = NotAsked
    /\ released = NotReleased
    /\ racers = <<>>

\* update(part.number, part.data) of an S3EtagUnordered and of a GScrc32cUnordered,
\* for any part not yet handed over
UnorderedChecksum_update(p) ==
    /\ pc = "parts"
    /\ p \in mp.todo
    /\ LET part == get_part(objs[PartsSource].data, p)
       IN  mp' = [mp EXCEPT
                     !.todo = @ \ {p},
                     !.s3etag = S3EtagUnordered_update(@, part.number, part.data),
                     !.gscrc = GScrc32cUnordered_update(@, part.number, part.data)]
    /\ UNCHANGED <<objs, billing_project, ignore_missing_checksums, xfers, completed,
                   yielded, pc, ncalls, bucket, result, ssds_vars, call_vars>>

ChecksumNext == \E p \in mp.todo : UnorderedChecksum_update(p)

ChecksumSpec == PartsInit /\ [][ChecksumNext]_vars

\* S3MultipartWriter.put_part of any part not yet put: the upload of the part is
\* handed to the async_set, which takes MAX_PASSTHROUGH_CONCURRENCY uploads at a time
S3MultipartWriter_put(p) ==
    /\ pc = "parts"
    /\ p \in mp.todo
    /\ Cardinality(mp.inflight) < MAX_PASSTHROUGH_CONCURRENCY
    /\ mp' = [mp EXCEPT !.todo = @ \ {p},
                        !.inflight = @ \cup {get_part(objs[PartsSource].data, p)}]
    /\ UNCHANGED <<objs, billing_project, ignore_missing_checksums, xfers, completed,
                   yielded, pc, ncalls, bucket, result, ssds_vars, call_vars>>

\* The upload of a part returns; _collect_parts appends its result to self.parts
S3MultipartWriter_collect(part) ==
    /\ pc = "parts"
    /\ part \in mp.inflight
    /\ mp' = [mp EXCEPT !.inflight = @ \ {part},
                        !.parts = Append(@, S3MultipartWriter_put_part(part))]
    /\ UNCHANGED <<objs, billing_project, ignore_missing_checksums, xfers, completed,
                   yielded, pc, ncalls, bucket, result, ssds_vars, call_vars>>

\* S3MultipartWriter.close after the last put_part: it waits for the uploads, sorts
\* self.parts and completes the upload.  mp.parts stays the list that was handed
\* to CompleteMultipartUpload.
S3MultipartWriter_closes ==
    /\ pc = "parts"
    /\ mp.todo = {}
    /\ mp.inflight = {}
    /\ mp' = [mp EXCEPT !.parts = S3MultipartWriter_sort(@)]
    /\ objs' = S3MultipartWriter_close(objs, WriterBlob, mp.parts).objs
    /\ pc' = "closed"
    /\ UNCHANGED <<billing_project, ignore_missing_checksums, xfers, completed, yielded,
                   ncalls, bucket, result, ssds_vars, call_vars>>

\* An exception inside the with block of the writer, parts still to come (the part
\* iterator of the source fails): MultipartWriter.__exit__ calls close whatever
\* ended the block, close waits for the uploads and completes the upload with the
\* parts it has.  The store refuses an empty list of parts.
MultipartWriter_exit_on_exception ==
    /\ pc = "parts"
    /\ mp.todo # {}
    /\ mp.inflight = {}
    /\ mp' = [mp EXCEPT !.parts = S3MultipartWriter_sort(@)]
    /\ objs' = IF mp.parts = <<>> THEN objs
               ELSE S3MultipartWriter_close(objs, WriterBlob, mp.parts).objs
    /\ pc' = "raised"
    /\ UNCHANGED <<billing_project, ignore_missing_checksums, xfers, completed, yielded,
                   ncalls, bucket, result, ssds_vars, call_vars>>

WriterNext ==
    \/ \E p \in mp.todo : S3MultipartWriter_put(p)
    \/ \E part \in mp.inflight : S3MultipartWriter_collect(part)
    \/ S3MultipartWriter_closes
    \/ MultipartWriter_exit_on_exception

WriterSpec == PartsInit /\ [][WriterNext]_vars

\* ------------------------------------------- the part iterators on their own

\* blob.parts() of an object of 0 to 2 * MaxParts blocks in one of the stores; pc
\* tells whose iterator runs
IterInit ==
    /\ \E n \in 0..(2 * MaxParts) :
          /\ objs = Uploaded(n, EmptyTags)
          /\ mp = [MpIdle EXCEPT !.todo = 0..(number_of_parts(size_of(Data(n))) - 1)]
    /\ pc \in {st \o ".parts" : st \in Stores}
    /\ billing_project = FALSE
    /\ ignore_missing_checksums = FALSE
    /\ xfers = <<>>
    /\ completed = {}
    /\ yielded = <<>>
    /\ ncalls = 0
    /\ bucket = EmptyBucket
    /\ result = "none"
    /\ dst_schema = "gs"
    /\ dst_bucket = EmptyBucket
    /\ synced = NotSynced
    /\ listed = <<>>
    /\ pool = NoPool
    /\ uploading = NotUploading
    /\ chunked = NotChunked
    /\ retrying = NotRetrying
    /\ asked = NotAsked
    /\ released = NotReleased
    /\ racers = <<>>

\* LocalAsyncPartIterator.__iter__, and the branch of one part of the cloud
\* iterators: the next part is read and yielded
PartIterator_next ==
    /\ \/ pc = "local.parts"
       \/ pc \in {"s3.parts", "gs.parts"} /\ number_of_parts(size(objs, PartsSource)) = 1
    /\ mp.todo # {}
    /\ mp' = [mp EXCEPT !.todo = @ \ {Min(mp.todo)},
                        !.parts = Append(@, get_part(objs[PartsSource].data, Min(mp.todo)))]
    /\ UNCHANGED <<objs, billing_project, ignore_missing_checksums, xfers, completed,
                   yielded, pc, ncalls, bucket, result, ssds_vars, call_vars>>

\* S3AsyncPartIterator.__iter__ (GSAsyncPartIterator.__iter__ through
\* for_each_chunk_async): parts.put(self._get_part, part_number), up the part numbers,
\* as the async_set has room
PartIterator_fetch ==
    /\ pc \in {"s3.parts", "gs.parts"}
    /\ number_of_parts(size(objs, PartsSource)) # 1
    /\ mp.todo # {}
    /\ Cardinality(mp.inflight) < MAX_PASSTHROUGH_CONCURRENCY
    /\ mp' = [mp EXCEPT !.todo = @ \ {Min(mp.todo)},
                        !.inflight = @ \cup {get_part(objs[PartsSource].data, Min(mp.todo))}]
    /\ UNCHANGED <<objs, billing_project, ignore_missing_checksums, xfers, completed,
                   yielded, pc, ncalls, bucket, result, ssds_vars, call_vars>>

\* A fetch has finished: consume_finished() or consume() yields its part
PartIterator_yield(part) ==
    /\ pc \in {"s3.parts", "gs.parts"}
    /\ part \in mp.inflight
    /\ mp' = [mp EXCEPT !.inflight = @ \ {part}, !.parts = Append(@, part)]
    /\ UNCHANGED <<objs, billing_project, ignore_missing_checksums, xfers, completed,
                   yielded, pc, ncalls, bucket, result, ssds_vars, call_vars>>

\* The iterator is exhausted
PartIterator_stop ==
    /\ pc \in {st \o ".parts" : st \in Stores}
    /\ mp.todo = {}
    /\ mp.inflight = {}
    /\ pc' = "iterated"
    /\ UNCHANGED <<objs, billing_project, ignore_missing_checksums, xfers, completed,
                   yielded, mp, ncalls, bucket, result, ssds_vars, call_vars>>

IterNext ==
    \/ PartIterator_next
    \/ PartIterator_fetch
    \/ \E part \in mp.inflight : PartIterator_yield(part)
    \/ PartIterator_stop

IterSpec == IterInit /\ [][IterNext]_vars

\* ----------------------------------------------- the chunk size on its own

\* The file sizes k * AWS_MAX_MULTIPART_COUNT MiB + d bytes: around the size at which
\* the chunk size leaves AWS_MIN_CHUNK_SIZE (k = 64), the sizes of the test (k = 65),
\* small files and files of petabytes
FileSizes ==
    {BigAdd(BigMul(BigMul(BigOf(k), AWS_MAX_MULTIPART_COUNT, 0), BytesPerMiB, 0), d) :
        k \in {0, 1, 63, 64, 65, 66, 1000, 524288, 1048576, 2097152},
        d \in {0, 1, 2, 3, 5000, 9999}}
    \cup
    {BigPred(BigMul(BigMul(BigOf(k), AWS_MAX_MULTIPART_COUNT, 0), BytesPerMiB, 0)) :
        k \in {1, 64, 65, 66, 1048576}}

ChunkInit ==
    /\ objs = Uploaded(0, EmptyTags)
    /\ billing_project = FALSE
    /\ ignore_missing_checksums = FALSE
    /\ xfers = <<>>
    /\ completed = {}
    /\ yielded = <<>>
    /\ pc = "chunk"
    /\ mp = MpIdle
    /\ ncalls = 0
    /\ bucket = EmptyBucket
    /\ result = "none"
    /\ dst_schema = "gs"
    /\ dst_bucket = EmptyBucket
    /\ synced = NotSynced
    /\ listed = <<>>
    /\ pool = NoPool
    /\ uploading = NotUploading
    /\ \E filesize \in FileSizes : chunked = [filesize |-> filesize, chunk_size |-> <<>>]
    /\ retrying = NotRetrying
    /\ asked = NotAsked
    /\ released = NotReleased
    /\ racers = <<>>

\* A call of get_s3_multipart_chunk_size
GetChunkSize ==
    /\ pc = "chunk"
    /\ chunked.chunk_size = <<>>
    /\ chunked' = [chunked EXCEPT !.chunk_size = get_s3_multipart_chunk_size_bytes(chunked.filesize)]
    /\ UNCHANGED <<objs, billing_project, ignore_missing_checksums, xfers, completed,
                   yielded, pc, mp, ncalls, bucket, result, ssds_vars, retrying, asked, released, racers, pool, uploading>>

ChunkNext == GetChunkSize

ChunkSpec == ChunkInit /\ [][ChunkNext]_vars

\* ------------------------------------------------------------ ssds/utils.py

\* What a call of the wrapped function does: it returns, or raises one of these
Faults == {"TypeError", "ValueError", "KeyError"}

first_tries_remaining_one_more(number_of_attempts) == number_of_attempts

\* range(number_of_attempts - 1, -1, -1) starts here
first_tries_remaining(number_of_attempts) == number_of_attempts - 1

\* wrapper(*args, **kwargs) is entered, for retry(*exceptions, number_of_attempts)
RetryInit ==
    /\ objs = Uploaded(0, EmptyTags)
    /\ billing_project = FALSE
    /\ ignore_missing_checksums = FALSE
    /\ xfers = <<>>
    /\ completed = {}
    /\ yielded = <<>>
    /\ pc = "retry"
    /\ mp = MpIdle
    /\ ncalls = 0
    /\ bucket = EmptyBucket
    /\ result = "none"
    /\ dst_schema = "gs"
    /\ dst_bucket = EmptyBucket
    /\ synced = NotSynced
    /\ listed = <<>>
    /\ pool = NoPool
    /\ uploading = NotUploading
    /\ chunked = NotChunked
    /\ \E exceptions \in SUBSET {"TypeError", "ValueError"}, number_of_attempts \in 1..MaxAttempts :
          /\ exceptions # {}
          /\ retrying = [exceptions |-> exceptions,
                         number_of_attempts |-> number_of_attempts,
                         tries_remaining |-> first_tries_remaining(number_of_attempts),
                         backoffs |-> 0,
                         calls |-> <<>>,
                         outcome |-> "running"]
    /\ asked = NotAsked
    /\ released = NotReleased
    /\ racers = <<>>

retry_unchanged ==
    UNCHANGED <<objs, billing_project, ignore_missing_checksums, xfers, completed,
                yielded, pc, mp, ncalls, bucket, result, ssds_vars, chunked, asked, released, racers, pool, uploading>>

\* One pass of the loop in which func returns: the wrapper returns its result
RetryReturns ==
    /\ pc = "retry"
    /\ retrying.outcome = "running"
    /\ retrying.tries_remaining >= 0
    /\ retrying' = [retrying EXCEPT !.calls = Append(@, "returned"), !.outcome = "returned"]
    /\ retry_unchanged

\* One pass of the loop in which func raises: a fault of the except clause is
\* slept on while tries remain and raised again on the last one; any other fault
\* leaves the wrapper at once
RetryRaises(fault) ==
    /\ pc = "retry"
    /\ retrying.outcome = "running"
    /\ retrying.tries_remaining >= 0
    /\ retrying' =
          IF fault \in retrying.exceptions /\ retrying.tries_remaining # 0
          THEN [retrying EXCEPT !.calls = Append(@, fault),
                                !.tries_remaining = @ - 1,
                                !.backoffs = @ + 1]
          ELSE [retrying EXCEPT !.calls = Append(@, fault), !.outcome = fault]
    /\ retry_unchanged

RetryNext ==
    \/ RetryReturns
    \/ \E fault \in Faults : RetryRaises(fault)

RetrySpec == RetryInit /\ [][RetryNext]_vars

\* --------------------------------------- copy_from_is_multipart on its own

\* Stores that hold an object of 0 to 2 * MaxParts blocks under SrcKey and nothing
\* under MissingKey
AskInit ==
    /\ \E n \in 0..(2 * MaxParts) : objs = Uploaded(n, EmptyTags)
    /\ billing_project \in BOOLEAN
    /\ ignore_missing_checksums = FALSE
    /\ xfers = <<>>
    /\ completed = {}
    /\ yielded = <<>>
    /\ pc = "ask"
    /\ mp = MpIdle
    /\ ncalls = 0
    /\ bucket = EmptyBucket
    /\ result = "none"
    /\ dst_schema = "gs"
    /\ dst_bucket = EmptyBucket
    /\ synced = NotSynced
    /\ listed = <<>>
    /\ pool = NoPool
    /\ uploading = NotUploading
    /\ chunked = NotChunked
    /\ retrying = NotRetrying
    /\ asked = NotAsked
    /\ released = NotReleased
    /\ racers = <<>>

\* Whether dst.copy_from_is_multipart(src) raises BlobNotFoundError: S3Blob asks the
\* store for src.size(), GSBlob reads an attribute of the bucket handle, LocalBlob
\* reads nothing
copy_from_is_multipart_raises(o, dst, src) == dst.st = "s3" /\ ~exists(o, src)

\* dst.copy_from_is_multipart(src) for two blobs of one store
AskIsMultipart(src) ==
    /\ pc = "ask"
    /\ LET dst == [st |-> src.st, key |-> DstKey(1)]
       IN  asked' = [src |-> src,
                     dst |-> dst,
                     outcome |-> IF copy_from_is_multipart_raises(objs, dst, src)
                                 THEN "BlobNotFoundError"
                                 ELSE IF copy_from_is_multipart(objs, dst, src) THEN "True"
                                 ELSE "False"]
    /\ UNCHANGED <<objs, billing_project, ignore_missing_checksums, xfers, completed,
                   yielded, pc, mp, ncalls, bucket, result, ssds_vars, chunked, retrying, released, racers, pool, uploading>>

AskNext == \E src \in Sources : AskIsMultipart(src)

AskSpec == AskInit /\ [][AskNext]_vars

\* ------------------------------------------- ssds/cli/staging.py: release

\* The release prefix
working == <<"w", "o", "r", "k", "i", "n", "g">>

\* The key of file f of the submission named x
KeyOfF(submission_id) ==
    prefix \o <<"/">> \o submission_id \o name_delimeter \o <<"x", "/", "f">>

\* Lists of (source key, destination key): one pair into the release prefix, one
\* out of it, one pair given twice, two sources for one destination
ReleaseTransfers(submission_id) ==
    {<<[src |-> KeyOfF(submission_id), dst |-> working \o <<"/", "f">>]>>,
     <<[src |-> KeyOfF(submission_id), dst |-> <<"f">>]>>,
     <<[src |-> KeyOfF(submission_id), dst |-> working \o <<"/", "f">>],
       [src |-> KeyOfF(submission_id), dst |-> working \o <<"/", "f">>]>>,
     <<[src |-> KeyOfF(submission_id), dst |-> working \o <<"/", "f">>],
       [src |-> KeyOfF(submission_id), dst |-> working \o <<"/", "g">>]>>}

\* The release command: raise NotImplementedError()
Release(submission_id, transfers) ==
    /\ released' = [submission_id |-> submission_id, transfers |-> transfers,
                    exception |-> "NotImplementedError"]
    /\ result' = "NotImplementedError"
    /\ UNCHANGED <<client_vars, bucket, ssds_vars, chunked, retrying, asked, racers, pool, uploading>>

ReleaseNext ==
    \/ \E id \in DistinctIds, n \in {1, MaxScopeBlocks} :
         SSDS_upload(<<<<"f">>>>, id, <<"x">>, Data(n))
    \/ \E id \in DistinctIds : \E transfers \in ReleaseTransfers(id) : Release(id, transfers)

ReleaseSpec == SSDSInit /\ [][ReleaseNext]_vars

\* ------------------------------------------------ two syncs side by side

RacedId == <<"a">>

\* The source buckets of the race: the submission a--x with one or two files, each
\* of one part or of several
RacedSources ==
    LET one(b, path, n) == upload_tree(b, <<path>>, RacedId, <<"x">>, Data(n)).bucket
    IN  {one(EmptyBucket, <<"f">>, n) : n \in {1, MaxScopeBlocks}}
        \cup {one(one(EmptyBucket, <<"f">>, n), <<"g">>, m) :
                 n \in {1, MaxScopeBlocks}, m \in {1, MaxScopeBlocks}}

\* Two calls of sync(RacedId, src, dst) have listed the source; dst is empty
RaceInit ==
    /\ objs = Uploaded(0, EmptyTags)
    /\ billing_project = FALSE
    /\ ignore_missing_checksums = FALSE
    /\ xfers = <<>>
    /\ completed = {}
    /\ yielded = <<>>
    /\ pc = "race"
    /\ mp = MpIdle
    /\ ncalls = 0
    /\ bucket \in RacedSources
    /\ result = "none"
    /\ dst_schema \in CloudStores
    /\ dst_bucket = EmptyBucket
    /\ synced = NotSynced
    /\ listed = <<>>
    /\ pool = NoPool
    /\ uploading = NotUploading
    /\ chunked = NotChunked
    /\ retrying = NotRetrying
    /\ asked = NotAsked
    /\ released = NotReleased
    /\ racers = [r \in 1..2 |->
                    [exception |-> "None",
                     stage |-> [k \in blobstore_list(bucket, prefix \o <<"/">> \o RacedId) |->
                                   "listed"]]]

race_unchanged ==
    UNCHANGED <<client_vars, bucket, result, dst_schema, synced, listed, chunked, retrying,
                asked, released, pool, uploading>>

\* 1 == len(parts)
is_oneshot(key) == Len(PartsOf(bucket[key].data)) = 1

\* The loop of run r comes to the next blob of the listing.  A blob of one part is
\* handed to the async set and the loop goes on; a blob of several parts is synced
\* by the loop itself, which comes to the next blob when that is done.
SyncReach(r, key) ==
    /\ pc = "race"
    /\ racers[r].exception = "None"
    /\ racers[r].stage[key] = "listed"
    /\ key = first_listed({k \in DOMAIN racers[r].stage : racers[r].stage[k] = "listed"})
    /\ \A k \in DOMAIN racers[r].stage :
          ~is_oneshot(k) => racers[r].stage[k] \in {"listed", "done", "skipped"}
    /\ racers' = [racers EXCEPT ![r].stage[key] = "check"]
    /\ UNCHANGED dst_bucket
    /\ race_unchanged

\* _already_synced(key)
SyncCheck(r, key) ==
    /\ pc = "race"
    /\ racers[r].exception = "None"
    /\ racers[r].stage[key] = "check"
    /\ racers' = [racers EXCEPT ![r].stage[key] =
                     IF already_synced(bucket, dst_bucket, key) THEN "skipped" ELSE "put"]
    /\ UNCHANGED dst_bucket
    /\ race_unchanged

\* dst.blobstore.blob(key).put(data), or the with block of the multipart writer: the
\* store replaces the object when the request, or the close of the writer, returns
SyncPut(r, key) ==
    /\ pc = "race"
    /\ racers[r].exception = "None"
    /\ racers[r].stage[key] = "put"
    /\ dst_bucket' = [k \in DOMAIN dst_bucket \cup {key} |->
                         IF k # key THEN dst_bucket[k]
                         ELSE IF is_oneshot(key) THEN sync_put(dst_schema, bucket[key].data)
                         ELSE sync_multipart(dst_schema, bucket[key].data)]
    /\ racers' = [racers EXCEPT ![r].stage[key] = "verify"]
    /\ race_unchanged

\* _verify_and_tag(key) up to its assertion
SyncVerify(r, key) ==
    /\ pc = "race"
    /\ racers[r].exception = "None"
    /\ racers[r].stage[key] = "verify"
    /\ LET v == verify_and_tag(dst_schema, bucket[key].tags, dst_bucket[key])
       IN  racers' = IF v.exception = "None"
                     THEN [racers EXCEPT ![r].stage[key] = "tag"]
                     ELSE [racers EXCEPT ![r].exception = v.exception]
    /\ UNCHANGED dst_bucket
    /\ race_unchanged

\* dst.blobstore.blob(key).put_tags(src_tags) of _verify_and_tag
SyncTag(r, key) ==
    /\ pc = "race"
    /\ racers[r].exception = "None"
    /\ racers[r].stage[key] = "tag"
    /\ dst_bucket' = [dst_bucket EXCEPT ![key].tags = bucket[key].tags]
    /\ racers' = [racers EXCEPT ![r].stage[key] = "done"]
    /\ race_unchanged

RaceNext ==
    \/ \E r \in 1..2 : \E key \in DOMAIN bucket : SyncReach(r, key)
    \/ \E r \in 1..2 : \E key \in DOMAIN bucket : SyncCheck(r, key)
    \/ \E r \in 1..2 : \E key \in DOMAIN bucket : SyncPut(r, key)
    \/ \E r \in 1..2 : \E key \in DOMAIN bucket : SyncVerify(r, key)
    \/ \E r \in 1..2 : \E key \in DOMAIN bucket : SyncTag(r, key)

RaceSpec == RaceInit /\ [][RaceNext]_vars

\* ---------------------------------------------- two uploads side by side

\* Two calls of SSDS.upload(src_url, RacedId, name) with two names, for an id the
\* bucket holds nothing of
UploadRaceInit ==
    /\ objs = Uploaded(0, EmptyTags)
    /\ billing_project = FALSE
    /\ ignore_missing_checksums = FALSE
    /\ xfers = <<>>
    /\ completed = {}
    /\ yielded = <<>>
    /\ pc = "uploads"
    /\ mp = MpIdle
    /\ ncalls = 0
    /\ bucket = EmptyBucket
    /\ result = "none"
    /\ dst_schema = "gs"
    /\ dst_bucket = EmptyBucket
    /\ synced = NotSynced
    /\ listed = <<>>
    /\ pool = NoPool
    /\ uploading = NotUploading
    /\ chunked = NotChunked
    /\ retrying = NotRetrying
    /\ asked = NotAsked
    /\ released = NotReleased
    /\ \E names \in {<<<<"x">>, <<"y">>>>, <<<<"y">>, <<"x">>>>} :
       \E trees \in [1..2 -> Trees], n \in {1, MaxScopeBlocks} :
          racers = [r \in 1..2 |->
                       [name |-> names[r], data |-> Data(n), todo |-> trees[r],
                        stage |-> "check", exception |-> "None"]]

upload_race_unchanged ==
    UNCHANGED <<client_vars, result, ssds_vars, chunked, retrying, asked, released, pool, uploading>>

\* name = self._check_name_exists(submission_id, name)
UploadCheckName(r) ==
    /\ pc = "uploads"
    /\ racers[r].stage = "check"
    /\ LET checked == check_name_exists(bucket, RacedId, racers[r].name)
       IN  racers' = IF checked.exception # "None"
                     THEN [racers EXCEPT ![r].stage = "done",
                                         ![r].exception = checked.exception]
                     ELSE [racers EXCEPT ![r].stage = "upload", ![r].name = checked.name]
    /\ UNCHANGED bucket
    /\ upload_race_unchanged

\* One turn of the loop of SSDS._upload_tree: the next file is put under its key
UploadFile(r) ==
    /\ pc = "uploads"
    /\ racers[r].stage = "upload"
    /\ racers[r].todo # <<>>
    /\ LET u == upload_tree(bucket, <<Head(racers[r].todo)>>, RacedId, racers[r].name,
                            racers[r].data)
       IN  /\ bucket' = u.bucket
           /\ racers' = IF u.exception # "None"
                        THEN [racers EXCEPT ![r].stage = "done", ![r].exception = u.exception]
                        ELSE [racers EXCEPT ![r].todo = Tail(@)]
    /\ upload_race_unchanged

\* SSDS._upload_tree has put every file
UploadEnds(r) ==
    /\ pc = "uploads"
    /\ racers[r].stage = "upload"
    /\ racers[r].todo = <<>>
    /\ racers' = [racers EXCEPT ![r].stage = "done"]
    /\ UNCHANGED bucket
    /\ upload_race_unchanged

UploadRaceNext ==
    \/ \E r \in 1..2 : UploadCheckName(r)
    \/ \E r \in 1..2 : UploadFile(r)
    \/ \E r \in 1..2 : UploadEnds(r)

UploadRaceSpec == UploadRaceInit /\ [][UploadRaceNext]_vars

\* ------------------------------------------------------- the shared executor

\* How many executors the threads may make
MaxExecutors == 3

\* How many tasks an executor may be running
MaxTasks == 2

\* The threads that call Executor.get and Executor.shutdown
Threads == 1..2

\* A thread outside Executor: the value it loaded, what get returned to it last
IdleThread == [at |-> "idle", val |-> 0, ret |-> 0, exception |-> "None"]

\* The class Executor before its first call: _executor is None (0)
ExecInit ==
    /\ objs = Uploaded(0, EmptyTags)
    /\ billing_project = FALSE
    /\ ignore_missing_checksums = FALSE
    /\ xfers = <<>>
    /\ completed = {}
    /\ yielded = <<>>
    /\ pc = "executor"
    /\ mp = MpIdle
    /\ ncalls = 0
    /\ bucket = EmptyBucket
    /\ result = "none"
    /\ dst_schema = "gs"
    /\ dst_bucket = EmptyBucket
    /\ synced = NotSynced
    /\ listed = <<>>
    /\ chunked = NotChunked
    /\ retrying = NotRetrying
    /\ asked = NotAsked
    /\ released = NotReleased
    /\ racers = <<>>
    /\ uploading = NotUploading
    /\ pool = [executor |-> 0, created |-> 0, returned |-> {}, joined |-> {},
               refusing |-> {}, shutdowns |-> 0,
               tasks |-> [e \in 1..MaxExecutors |-> 0],
               th |-> [t \in Threads |-> IdleThread]]

exec_unchanged ==
    UNCHANGED <<client_vars, bucket, result, ssds_vars, chunked, retrying, asked,
                released, racers, uploading>>

\* Executor.get, the right-hand side: cls._executor is loaded
ExecutorGetLoad(t) ==
    /\ pc = "executor"
    /\ pool.th[t].at = "idle"
    /\ pool' = [pool EXCEPT !.th[t] = [at |-> "get_loaded", val |-> pool.executor,
                                       ret |-> 0, exception |-> "None"]]
    /\ exec_unchanged

\* ... or ThreadPoolExecutor(max_workers=cls.max_workers), the loaded value being None
ExecutorGetCreate(t) ==
    /\ pc = "executor"
    /\ pool.th[t].at = "get_loaded"
    /\ pool.th[t].val = 0
    /\ pool.created < MaxExecutors
    /\ pool' = [pool EXCEPT !.created = @ + 1,
                            !.th[t].val = pool.created + 1]
    /\ exec_unchanged

\* cls._executor = ...
ExecutorGetStore(t) ==
    /\ pc = "executor"
    /\ pool.th[t].at = "get_loaded"
    /\ pool.th[t].val # 0
    /\ pool' = [pool EXCEPT !.executor = pool.th[t].val,
                            !.th[t].at = "get_stored"]
    /\ exec_unchanged

\* return cls._executor: the attribute is loaded again
ExecutorGetReturn(t) ==
    /\ pc = "executor"
    /\ pool.th[t].at = "get_stored"
    /\ pool' = [pool EXCEPT !.returned = IF pool.executor = 0 THEN @ ELSE @ \cup {pool.executor},
                            !.th[t].at = "idle",
                            !.th[t].ret = pool.executor]
    /\ exec_unchanged

\* AsyncSet.put: executor.submit on the executor get returned; an executor that has
\* been shut down takes no task
ExecutorSubmit(t) ==
    /\ pc = "executor"
    /\ pool.th[t].at = "idle"
    /\ pool.th[t].ret # 0
    /\ pool.th[t].ret \notin pool.refusing
    /\ pool.tasks[pool.th[t].ret] < MaxTasks
    /\ pool' = [pool EXCEPT !.tasks[pool.th[t].ret] = @ + 1]
    /\ exec_unchanged

\* A task of executor e returns
ExecutorTaskDone(e) ==
    /\ pc = "executor"
    /\ pool.tasks[e] > 0
    /\ pool' = [pool EXCEPT !.tasks[e] = @ - 1]
    /\ exec_unchanged

\* Executor.shutdown: if cls._executor (a call that finds None returns at once)
ExecutorShutdownTest(t) ==
    /\ pc = "executor"
    /\ pool.th[t].at = "idle"
    /\ pool.executor # 0
    /\ pool' = [pool EXCEPT !.th[t] = [at |-> "shutdown_tested", val |-> pool.executor,
                                       ret |-> 0, exception |-> "None"],
                            !.shutdowns = 1]
    /\ exec_unchanged

\* cls._executor.shutdown(wait=True): the attribute is loaded again, None has no
\* shutdown; the executor takes no task from here on
ExecutorShutdownCall(t) ==
    /\ pc = "executor"
    /\ pool.th[t].at = "shutdown_tested"
    /\ pool' = IF pool.executor = 0
               THEN [pool EXCEPT !.th[t].at = "idle",
                                 !.th[t].exception = "AttributeError"]
               ELSE [pool EXCEPT !.th[t].at = "shutdown_joining",
                                 !.th[t].val = pool.executor,
                                 !.refusing = @ \cup {pool.executor}]
    /\ exec_unchanged

\* shutdown(wait=True) returns when the tasks of the executor have
ExecutorShutdownJoin(t) ==
    /\ pc = "executor"
    /\ pool.th[t].at = "shutdown_joining"
    /\ pool.tasks[pool.th[t].val] = 0
    /\ pool' = [pool EXCEPT !.th[t].at = "shutdown_joined",
                            !.joined = @ \cup {pool.th[t].val}]
    /\ exec_unchanged

\* cls._executor = None
ExecutorShutdownClear(t) ==
    /\ pc = "executor"
    /\ pool.th[t].at = "shutdown_joined"
    /\ pool' = [pool EXCEPT !.executor = 0,
                            !.th[t].at = "idle"]
    /\ exec_unchanged

ExecNext ==
    \/ \E t \in Threads : ExecutorGetLoad(t)
    \/ \E t \in Threads : ExecutorGetCreate(t)
    \/ \E t \in Threads : ExecutorGetStore(t)
    \/ \E t \in Threads : ExecutorGetReturn(t)
    \/ \E t \in Threads : ExecutorSubmit(t)
    \/ \E e \in 1..MaxExecutors : ExecutorTaskDone(e)
    \/ \E t \in Threads : ExecutorShutdownTest(t)
    \/ \E t \in Threads : ExecutorShutdownCall(t)
    \/ \E t \in Threads : ExecutorShutdownJoin(t)
    \/ \E t \in Threads : ExecutorShutdownClear(t)

ExecSpec == ExecInit /\ [][ExecNext]_vars

\* ------------------------------------------------- SSDS.upload, turn by turn

\* How many files the source directory holds
MaxFiles == 3

\* The files of the source directory in the order of the listing: f, ff, fff
UploadPaths == [i \in 1..MaxFiles |-> [k \in 1..i |-> "f"]]

\* The key under which the bucket holds ssds_key
blob_key(ssds_key) == prefix \o <<"/">> \o ssds_key

\* self.blobstore.blob(dst_key).put(data) of SSDS._upload_oneshot
upload_oneshot_put(b, ssds_key, data) ==
    [k \in DOMAIN b \cup {blob_key(ssds_key)} |->
        IF k = blob_key(ssds_key) THEN [data |-> data, tags |-> EmptyTags] ELSE b[k]]

\* self.blobstore.blob(dst_key).put_tags(tags) of SSDS._upload_oneshot
upload_oneshot_put_tags(b, ssds_key) ==
    [b EXCEPT ![blob_key(ssds_key)].tags = ssds_tags(b[blob_key(ssds_key)].data)]

\* A faulty SSDS._upload_multipart: the key is returned before _tag() is called
upload_multipart_untagged(b, ssds_key, data) == upload_oneshot_put(b, ssds_key, data)

\* SSDS._upload_multipart: the writer, then _tag()
upload_multipart(b, ssds_key, data) == ssds_put(b, ssds_key, data)

\* The ssds_key of the i-th file
ssds_key_of(i) ==
    compose_ssds_key(uploading.id, uploading.name, uploading.files[i].path)

\* The oneshot uploads on the pool that have not returned
uploads_running ==
    {i \in 1..Len(uploading.files) : uploading.state[i] \in {"queued", "put", "tagged"}}

\* ssds.upload(src_url, submission_id, name) has returned its generator, over a
\* bucket that is empty or holds the submission under another name
UploadGenInit ==
    /\ objs = Uploaded(0, EmptyTags)
    /\ billing_project = FALSE
    /\ ignore_missing_checksums = FALSE
    /\ xfers = <<>>
    /\ completed = {}
    /\ yielded = <<>>
    /\ pc = "upload"
    /\ mp = MpIdle
    /\ ncalls = 0
    /\ result = "none"
    /\ dst_schema = "gs"
    /\ dst_bucket = EmptyBucket
    /\ synced = NotSynced
    /\ listed = <<>>
    /\ chunked = NotChunked
    /\ retrying = NotRetrying
    /\ asked = NotAsked
    /\ released = NotReleased
    /\ racers = <<>>
    /\ pool = NoPool
    /\ bucket \in {EmptyBucket, ssds_put(EmptyBucket, RacedId \o name_delimeter \o <<"y", "/", "f">>, Data(1))}
    /\ \E n \in 1..MaxFiles : \E sizes \in [1..n -> {0, 1, MaxScopeBlocks}] :
       \E name \in {<<"x">>, <<"x", " ">>} :
          uploading = [stage |-> "created", id |-> RacedId, name |-> name,
                       files |-> [i \in 1..n |-> [path |-> UploadPaths[i], data |-> Data(sizes[i])]],
                       pos |-> 0,
                       state |-> [i \in 1..n |-> "listed"],
                       out |-> <<>>,
                       before |-> bucket,
                       exception |-> "None"]

upload_gen_unchanged ==
    UNCHANGED <<client_vars, result, ssds_vars, chunked, retrying, asked, released,
                racers, pool>>

\* The first next() on the generator: _check_name_exists, the listing, the
\* assertions of _upload_tree
UploadGenStart ==
    /\ pc = "upload"
    /\ uploading.stage = "created"
    /\ LET checked == check_name_exists(bucket, uploading.id, uploading.name)
       IN  uploading' =
               IF checked.exception # "None"
               THEN [uploading EXCEPT !.stage = "raised", !.exception = checked.exception]
               ELSE IF " " \in {checked.name[i] : i \in 1..Len(checked.name)}
                       \/ contains(checked.name, name_delimeter)
               THEN [uploading EXCEPT !.stage = "raised", !.exception = "AssertionError"]
               ELSE [uploading EXCEPT !.stage = "loop", !.name = checked.name]
    /\ UNCHANGED bucket
    /\ upload_gen_unchanged

\* for ssds_key in oneshot_uploads.consume_finished(): yield ssds_key, in the loop
\* and, as consume(), after it
UploadGenYieldFinished(i) ==
    /\ pc = "upload"
    /\ uploading.stage \in {"loop", "final"}
    /\ i \in 1..Len(uploading.files)
    /\ uploading.state[i] = "returned"
    /\ uploading' = [uploading EXCEPT !.state[i] = "yielded",
                                      !.out = Append(@, ssds_key_of(i).ssds_key)]
    /\ UNCHANGED bucket
    /\ upload_gen_unchanged

\* The body of the loop for the next blob of the listing: a oneshot upload is put on
\* the async set, a multipart upload is run and its key yielded
UploadGenNextBlob ==
    /\ pc = "upload"
    /\ uploading.stage = "loop"
    /\ uploading.pos < Len(uploading.files)
    /\ LET i == uploading.pos + 1
           c == ssds_key_of(i)
           data == uploading.files[i].data
       IN  IF c.exception # "None"
           THEN /\ uploading' = [uploading EXCEPT !.stage = "raised",
                                                  !.exception = c.exception]
                /\ UNCHANGED bucket
           ELSE IF get_s3_multipart_chunk_size(size_of(data)) >= size_of(data)
           THEN /\ Cardinality(uploads_running) < MAX_PASSTHROUGH_CONCURRENCY
                /\ uploading' = [uploading EXCEPT !.pos = i, !.state[i] = "queued"]
                /\ UNCHANGED bucket
           ELSE /\ bucket' = upload_multipart(bucket, c.ssds_key, data)
                /\ uploading' = [uploading EXCEPT !.pos = i, !.state[i] = "yielded",
                                                  !.out = Append(@, c.ssds_key)]
    /\ upload_gen_unchanged

\* The loop over the listing ends: oneshot_uploads.consume()
UploadGenConsume ==
    /\ pc = "upload"
    /\ uploading.stage = "loop"
    /\ uploading.pos = Len(uploading.files)
    /\ uploading' = [uploading EXCEPT !.stage = "final"]
    /\ UNCHANGED bucket
    /\ upload_gen_unchanged

\* consume() has yielded every upload: the generator is exhausted
UploadGenStop ==
    /\ pc = "upload"
    /\ uploading.stage = "final"
    /\ \A i \in 1..Len(uploading.files) : uploading.state[i] = "yielded"
    /\ uploading' = [uploading EXCEPT !.stage = "done"]
    /\ UNCHANGED bucket
    /\ upload_gen_unchanged

\* SSDS._upload_oneshot on a pool thread: get, the checksums, put
UploadOneshotPut(i) ==
    /\ pc = "upload"
    /\ i \in 1..Len(uploading.files)
    /\ uploading.state[i] = "queued"
    /\ bucket' = upload_oneshot_put(bucket, ssds_key_of(i).ssds_key, uploading.files[i].data)
    /\ uploading' = [uploading EXCEPT !.state[i] = "put"]
    /\ upload_gen_unchanged

\* ... put_tags
UploadOneshotPutTags(i) ==
    /\ pc = "upload"
    /\ i \in 1..Len(uploading.files)
    /\ uploading.state[i] = "put"
    /\ bucket' = upload_oneshot_put_tags(bucket, ssds_key_of(i).ssds_key)
    /\ uploading' = [uploading EXCEPT !.state[i] = "tagged"]
    /\ upload_gen_unchanged

\* ... return ssds_key: the future is done
UploadOneshotReturn(i) ==
    /\ pc = "upload"
    /\ i \in 1..Len(uploading.files)
    /\ uploading.state[i] = "tagged"
    /\ uploading' = [uploading EXCEPT !.state[i] = "returned"]
    /\ UNCHANGED bucket
    /\ upload_gen_unchanged

UploadGenNext ==
    \/ UploadGenStart
    \/ \E i \in 1..MaxFiles : UploadGenYieldFinished(i)
    \/ UploadGenNextBlob
    \/ UploadGenConsume
    \/ UploadGenStop
    \/ \E i \in 1..MaxFiles : UploadOneshotPut(i)
    \/ \E i \in 1..MaxFiles : UploadOneshotPutTags(i)
    \/ \E i \in 1..MaxFiles : UploadOneshotReturn(i)

UploadGenSpec == UploadGenInit /\ [][UploadGenNext]_vars

\* ------------------------------------------------------------- properties

Range(f) == {f[k] : k \in DOMAIN f}

\* The tuples the client has reported so far: in _completed, or yielded already
Reported == completed \cup Range(yielded)

\* The transfer reported its completion with a nil exception
CompletedNil(x) == \E t \in Reported : t.src = x.src /\ t.dst = x.dst /\ t.exception = "None"

\* The exception the transfer was reported with
ReportedWith(x, exception) ==
    \E t \in Reported : t.src = x.src /\ t.dst = x.dst /\ t.exception = exception

Transfers == {xfers[i] : i \in 1..Len(xfers)}

IsCloud(blob) == blob.st \in CloudStores

\* C1: round-trip integrity.  When CopyClient.copy(A.blob(k), B.blob(k')) has completed
\* with a nil exception, B.blob(k') holds the data A holds at k, for every pair of
\* stores, every strategy and every order of the parts of a multipart transfer.
C1_RoundTrip ==
    \A x \in Transfers :
        x.op = "copy" /\ CompletedNil(x) =>
            /\ objs[x.dst].exists
            /\ objs[x.dst].data = objs[x.src].data

\* A multipart copy of three parts between the clouds has completed with a nil exception
C1_Witness ==
    \E x \in Transfers :
        /\ x.op = "copy" /\ x.method = "multipart" /\ CompletedNil(x)
        /\ IsCloud(x.src)
        /\ number_of_parts(size(objs, x.src)) >= 3

\* C2: native checksum agreement.  With ignore_missing_checksums off, a cloud
\* destination reported as completed without exception carries, if it is an S3 blob,
\* an SSDS_MD5 tag equal to its native checksum and, if it is a GS blob, an
\* SSDS_CRC32C tag equal to its native checksum.
C2_NativeChecksumAgreement ==
    \A x \in Transfers :
        IsCloud(x.dst) /\ CompletedNil(x) /\ ~ignore_missing_checksums =>
            LET tag == IF x.dst.st = "s3" THEN SSDS_MD5 ELSE SSDS_CRC32C
            IN  /\ tag \in DOMAIN objs[x.dst].tags
                /\ objs[x.dst].tags[tag] = objs[x.dst].native

\* A multipart transfer to S3 and a transfer to GS completed with the flag off
C2_Witness ==
    /\ ~ignore_missing_checksums
    /\ \E x \in Transfers :
         /\ x.dst.st = "s3" /\ CompletedNil(x)
         /\ objs[x.dst].native.n >= 2

\* The MD5 tag of data: the plain MD5 up to one chunk, else the composite ETag over
\* the parts in ascending part number
ExpectedMD5(data) ==
    IF size_of(data) <= get_s3_multipart_chunk_size(size_of(data))
    THEN md5(data)
    ELSE [alg  |-> "md5",
          body |-> [k \in 1..number_of_parts(size_of(data)) |->
                       Slice(data, (k - 1) * get_s3_multipart_chunk_size(size_of(data)),
                             get_s3_multipart_chunk_size(size_of(data)))],
          n    |-> number_of_parts(size_of(data))]

\* C3: checksum tagging.  After copy_compute_checksums(src, dst) has completed
\* without exception, dst's tags contain SSDS_MD5 and SSDS_CRC32C computed from the
\* transferred bytes, for every source store and whatever tags the source carries.
C3_ChecksumTagging ==
    \A x \in Transfers :
        x.op = "copy_compute_checksums" /\ CompletedNil(x) =>
            LET data == objs[x.src].data
                tags == objs[x.dst].tags
            IN  /\ {SSDS_MD5, SSDS_CRC32C} \subseteq DOMAIN tags
                /\ tags[SSDS_MD5] = ExpectedMD5(data)
                /\ tags[SSDS_CRC32C] = [alg |-> "crc32c", body |-> <<data>>, n |-> 0]

\* copy_compute_checksums of three parts from a cloud source that carries other tags
C3_Witness ==
    \E x \in Transfers :
        /\ x.op = "copy_compute_checksums" /\ CompletedNil(x)
        /\ x.method = "multipart"
        /\ IsCloud(x.src)
        /\ objs[x.src].tags # objs[x.dst].tags
        /\ number_of_parts(size(objs, x.src)) >= 3

\* The tags _do_copy hands to verify_checksums: those of the copy function or, when
\* it returned none, those of the source
VerifiedTags(x) == IF x.tags # EmptyTags THEN x.tags ELSE objs[x.src].tags

C5_MethodSelection ==
    \A x \in Transfers :
        x.op = "copy" /\ objs[x.src].exists =>
            LET sz == Len(objs[x.src].data) * BlockSize
            IN  x.method =
                  IF x.dst.st = "local" THEN "download"
                  ELSE IF x.src.st = x.dst.st THEN "intra"
                  ELSE IF sz <= get_s3_multipart_chunk_size(sz) THEN "oneshot"
                  ELSE "multipart"

\* A copy between the clouds of an object of exactly one chunk went oneshot
C5_Witness ==
    \E x \in Transfers :
        /\ x.op = "copy" /\ x.method = "oneshot"
        /\ x.src.st = "gs" /\ x.dst.st = "s3"
        /\ size(objs, x.src) = AWS_MIN_CHUNK_SIZE
        /\ x.stage = "done"

\* C9: verbatim tag copy.  When copy from a cloud source to a cloud destination has
\* completed without exception, the tags of dst are exactly src.get_tags().
C9_VerbatimTags ==
    \A x \in Transfers :
        x.op = "copy" /\ IsCloud(x.src) /\ IsCloud(x.dst) /\ CompletedNil(x) =>
            /\ objs[x.dst].tags = objs[x.src].tags
            /\ ~x.compute

\* A passthrough copy between the clouds of a source that carries a tag of the
\* user's next to the checksums
C9_Witness ==
    \E x \in Transfers :
        /\ x.op = "copy" /\ x.method \in {"oneshot", "multipart"}
        /\ IsCloud(x.src) /\ CompletedNil(x)
        /\ "owner" \in DOMAIN objs[x.dst].tags

\* How many tuples the client has reported for the transfer: in _completed, and
\* yielded
Count(x) ==
    Cardinality({t \in completed : t.src = x.src /\ t.dst = x.dst})
    + Cardinality({k \in 1..Len(yielded) : yielded[k].src = x.src /\ yielded[k].dst = x.dst})

\* C6: error propagation.  Every error of a transfer requested through copy or
\* copy_compute_checksums, the missing source included, reaches the caller as a
\* tuple of completed(): no call raises, and no transfer ends without a tuple.
\* Stated for the sources in S3 and GS.
C6_ErrorsDelivered ==
    \A x \in Transfers :
        IsCloud(x.src) =>
            /\ x.stage # "raised"
            /\ x.stage \in {"logged", "done"} => Count(x) >= 1

\* C7: at-most-once completion.  Whatever the interleaving of the workers with
\* completed(), a transfer contributes at most one tuple, completed() never yields a
\* tuple twice, and no recorded completion is lost.
C7_AtMostOnce ==
    /\ \A x \in Transfers : Count(x) <= 1
    /\ \A j, k \in 1..Len(yielded) : j # k => yielded[j] # yielded[k]
    /\ \A x \in Transfers : x.stage = "done" => Count(x) = 1

\* completed() has yielded a tuple while a worker is about to add another one
C7_Witness ==
    /\ pc = "scope"
    /\ Len(yielded) >= 1
    /\ \E x \in Transfers : x.async /\ x.stage = "tagged"

\* C8: scope exit awaits outstanding work.  When the with block has exited, no task
\* of the client is still running and every transfer that was started has exactly
\* one tuple, in the completed set or yielded; under fair scheduling of the workers
\* the exit returns.
C8_ScopeExit ==
    /\ [](pc = "exited" =>
            \A x \in Transfers :
                /\ x.async => x.stage = "done"
                /\ x.method # "none" => Count(x) = 1)
    /\ (pc = "exiting" ~> pc = "exited")

\* The with block has exited after MaxTransfers transfers, one of them run by the pool
C8_Witness ==
    /\ pc = "exited"
    /\ Len(xfers) = MaxTransfers
    /\ \A x \in Transfers : x.method # "none"
    /\ \E x \in Transfers : x.async

\* The keys of the bucket under submissions/<id>--<name>/
KeysOf(submission_id, name) ==
    {k \in DOMAIN bucket :
        startswith(k, prefix \o <<"/">> \o submission_id \o name_delimeter \o name \o <<"/">>)}

\* C10: one name per submission.  After any sequence of SSDS.upload and SSDS.copy
\* calls, no two keys submissions/<id>--<n1>/... and submissions/<id>--<n2>/... with
\* n1 # n2 are in the bucket together.
C10_OneNamePerSubmission ==
    \A id \in SubmissionIds : \A n1, n2 \in Names \ {<<>>} :
        n1 # n2 => KeysOf(id, n1) = {} \/ KeysOf(id, n2) = {}

\* The keys of bucket b under submissions/<id>--<name>/
KeysIn(b, submission_id, name) ==
    {k \in DOMAIN b :
        startswith(k, prefix \o <<"/">> \o submission_id \o name_delimeter \o name \o <<"/">>)}

\* The names that exactly the submission id has objects under in bucket b
ExistingNames(b, submission_id) ==
    {n \in Names \ {<<>>} : KeysIn(b, submission_id, n) # {}}

\* The objects a call wrote or overwrote
Written(b, after) ==
    {k \in DOMAIN after : k \notin DOMAIN b \/ after[k] # b[k]}

\* What the name resolution of SSDS.upload is to do in a bucket where the id has at
\* most one name: the outcome and the bucket after the call
NameResolved(submission_id, name) ==
    LET existing == ExistingNames(bucket, submission_id)
    IN  IF name = <<>> /\ existing = {} THEN result' = "ValueError" /\ bucket' = bucket
        ELSE IF name = <<>>
             THEN /\ result' = "None"
                  /\ \E n \in existing :
                        /\ KeysIn(bucket', submission_id, n) # {}
                        /\ Written(bucket, bucket') \subseteq KeysIn(bucket', submission_id, n)
        ELSE IF existing # {} /\ name \notin existing
             THEN result' = "ValueError" /\ bucket' = bucket
        ELSE /\ result' = "None"
             /\ KeysIn(bucket', submission_id, name) # {}
             /\ Written(bucket, bucket') \subseteq KeysIn(bucket', submission_id, name)

\* C11: name resolution on upload.  SSDS.upload without a name raises ValueError and
\* writes nothing when the submission id has no objects, and uses the existing name
\* when it has; with a name that differs from the existing name of exactly that id it
\* raises ValueError and writes nothing; with the existing name, or for a new id, it
\* proceeds with the supplied name.
C11_NameResolution ==
    [][\A tree \in Trees, id \in SubmissionIds, name \in Names, n \in {1, MaxScopeBlocks} :
          /\ \A i \in SubmissionIds : Cardinality(ExistingNames(bucket, i)) <= 1
          /\ SSDS_upload(tree, id, name, Data(n))
          => NameResolved(id, name)]_vars

\* C12: well-formed names.  No SSDS.upload of a tree and no SSDS.copy of a single file
\* ever leaves an object under a submission whose name holds a space or "--".
C12_WellFormedNames ==
    \A id \in DistinctIds, name \in MalformedNames : KeysIn(bucket, id, name) = {}

\* C13: key-length ceiling.  Every key the service has written, the full key
\* submissions/<id>--<name>/<relpath>, is shorter than MAX_KEY_LENGTH characters:
\* _compose_ssds_key raises ValueError exactly when the full key has MAX_KEY_LENGTH
\* characters or more.
C13_KeyLengthCeiling ==
    \A k \in DOMAIN bucket : Len(k) < MAX_KEY_LENGTH

\* C14: the key-length check precedes all writes.  When SSDS.upload raises ValueError
\* because a file of the listing would get too long a key, no object of that call,
\* the files listed before the offending one included, has been written or tagged.
C14_CheckBeforeWrites ==
    [][\A tree \in LongTrees, id \in DistinctIds, name \in {<<>>, <<"x">>} :
          SSDS_upload(tree, id, name, Data(MaxScopeBlocks)) /\ result' = "ValueError"
          => bucket' = bucket]_vars

\* C15: idempotent sync.  A call of sync(id, A, B) that follows a completed call of
\* sync(id, A, B), nothing having changed in A or B in between, puts no object to B
\* and yields no key.
C15_IdempotentSync ==
    result = "Synced" /\ synced.again =>
        /\ synced.writes = {}
        /\ synced.keys = {}

\* A second sync of a submission that has an object of several parts at the
\* destination has completed
C15_Witness ==
    /\ result = "Synced"
    /\ synced.again
    /\ \E k \in KeysIn(dst_bucket, synced.id, <<"x">>) :
          Len(PartsOf(dst_bucket[k].data)) > 1

\* The keys of bucket b under submissions/<id>--
SubmissionKeys(b, submission_id) ==
    {k \in DOMAIN b : startswith(k, prefix \o <<"/">> \o submission_id \o name_delimeter)}

\* C16: sync completeness.  After sync(id, src, dst) has been iterated to its end
\* without error on an empty destination, every object of the submission in src is
\* in dst under the same key with the same data and the tags of the source, and the
\* keys that sync yielded are the keys of the submission in src.
C16_SyncCompleteness ==
    result = "Synced" /\ synced.fresh =>
        /\ \A k \in SubmissionKeys(bucket, synced.id) :
              /\ k \in DOMAIN dst_bucket
              /\ dst_bucket[k].data = bucket[k].data
              /\ dst_bucket[k].tags = bucket[k].tags
        /\ synced.keys = SubmissionKeys(bucket, synced.id)

\* C17: listing round trip.  SSDS.list yields the pair (id, name) of every submission
\* that has an object written by upload exactly once, the strings as they were
\* given, and yields no pair that is not a stored submission.
C17_ListingRoundTrip ==
    result = "Listed" =>
        /\ \A id \in DistinctIds :
              KeysIn(bucket, id, <<"x">>) # {} =>
                  Cardinality({i \in 1..Len(listed) : listed[i] = <<id, <<"x">>>>}) = 1
        /\ \A i \in 1..Len(listed) :
              /\ listed[i][1] \in DistinctIds
              /\ KeysIn(bucket, listed[i][1], listed[i][2]) # {}

\* The parts of the object that are handed over, in ascending part number
SourceParts == PartsOf(objs[PartsSource].data)

\* C18: the unordered CRC32C.  Once update has taken the parts 0..N-1 of an object,
\* in whatever order, GScrc32cUnordered.hexdigest is the CRC32C of the parts joined
\* in ascending part number, and no chunk is left in the buffer.
C18_GScrc32cUnordered ==
    pc = "parts" /\ mp.todo = {} =>
        /\ GScrc32cUnordered_hexdigest(mp.gscrc) = google_storage_crc32c(Concat(SourceParts))
        /\ mp.gscrc.chunks = {}

\* Three parts or more have been taken, the last of them first
C18_Witness ==
    /\ pc = "parts"
    /\ mp.todo = {}
    /\ Len(mp.s3etag) >= 3
    /\ mp.s3etag[1].number = Len(mp.s3etag) - 1
    /\ mp.gscrc.current_chunk_number = Len(mp.s3etag)

\* C19: the unordered S3 ETag.  Once update has taken the parts 0..N-1 of an object,
\* in whatever order, S3EtagUnordered.hexdigest is compute_composite_etag of the MD5
\* of the parts in ascending part number.
C19_S3EtagUnordered ==
    pc = "parts" /\ mp.todo = {} =>
        S3EtagUnordered_hexdigest(mp.s3etag) =
            compute_composite_etag([k \in 1..Len(SourceParts) |-> md5(SourceParts[k].data)])

\* Three parts or more have been taken, in an order that is not the ascending one
C19_Witness ==
    /\ pc = "parts"
    /\ mp.todo = {}
    /\ Len(mp.s3etag) >= 3
    /\ \E k \in 1..(Len(mp.s3etag) - 1) : mp.s3etag[k].number > mp.s3etag[k + 1].number

\* C20: the order of the S3 multipart writer.  Whatever the order of the put_part
\* calls and of the returns of the uploads, at close the list handed to
\* CompleteMultipartUpload holds every part once, in ascending part.number + 1, and
\* the object is the parts joined in ascending part number.
C20_S3WriterOrder ==
    pc = "closed" =>
        /\ Len(mp.parts) = Len(SourceParts)
        /\ \A k \in 1..Len(mp.parts) :
              /\ mp.parts[k].number = SourceParts[k].number + 1
              /\ mp.parts[k].data = SourceParts[k].data
        /\ objs[WriterBlob].exists
        /\ objs[WriterBlob].data = Concat(SourceParts)

\* A writer of three parts or more has closed with the object in place
C20_Witness ==
    /\ pc = "closed"
    /\ Len(mp.parts) >= 3
    /\ objs[WriterBlob].exists

\* C21: abort on exception.  When an exception is raised inside the with block of an
\* S3 multipart writer, parts still to come, CompleteMultipartUpload is not issued
\* and no object is made of the parts put so far.
C21_AbortOnException ==
    pc = "raised" => ~objs[WriterBlob].exists

\* The bytes [from, to) of data, both in MiB
Bytes(data, from, to) == SubSeq(data, from \div BlockSize + 1, to \div BlockSize)

\* What a finished iteration of parts() has yielded is the N parts of the object:
\* each number of 0..N-1 once, part i with the bytes [i*c, min((i+1)*c, s)), the
\* parts joined in ascending number the object
YieldsParts(N) ==
    LET data == objs[PartsSource].data
        s    == size_of(data)
        c    == get_s3_multipart_chunk_size(s)
    IN  /\ Len(mp.parts) = N
        /\ {mp.parts[k].number : k \in 1..Len(mp.parts)} = 0..(N - 1)
        /\ \A k \in 1..Len(mp.parts) :
              LET i == mp.parts[k].number
              IN  mp.parts[k].data =
                      Bytes(data, i * c, IF (i + 1) * c < s THEN (i + 1) * c ELSE s)
        /\ Concat(SortByNumber(mp.parts)) = data

\* C22 as stated: part iterator coverage with N = ceil(s / c) for every size s.
C22_PartCoverage_AsStated ==
    pc = "iterated" =>
        YieldsParts(ceil(size(objs, PartsSource),
                         get_s3_multipart_chunk_size(size(objs, PartsSource))))

\* C22, amended: part iterator coverage.  Iterating parts() of an object of size s
\* yields each part number of 0..N-1 once, N = ceil(s / c) for s > 0 and N = 1 for
\* the empty object, in whatever order the fetches finish; part i carries the bytes
\* [i*c, min((i+1)*c, s)) and the parts joined in ascending number are the object.
C22_PartCoverage ==
    pc = "iterated" =>
        YieldsParts(IF size(objs, PartsSource) > 0
                    THEN ceil(size(objs, PartsSource),
                              get_s3_multipart_chunk_size(size(objs, PartsSource)))
                    ELSE 1)

\* An iteration of three parts or more has ended, the parts not in ascending order
C22_Witness ==
    /\ pc = "iterated"
    /\ Len(mp.parts) >= 3
    /\ \E k \in 1..(Len(mp.parts) - 1) : mp.parts[k].number > mp.parts[k + 1].number

\* The smallest whole multiple of 1 MiB that is at least ceil(size / MAX_PARTS)
RoundedUp(dm) ==
    BigMul(BigDivMod(BigAdd(IF dm.r = 0 THEN dm.q ELSE BigAdd(dm.q, 1), BytesPerMiB - 1),
                     BytesPerMiB).q,
           BytesPerMiB, 0)

\* C23: the chunk-size law.  get_s3_multipart_chunk_size(size) is MIN for every size
\* of MAX_PARTS * MIN at most, and otherwise the smallest whole multiple of 1 MiB
\* that is at least ceil(size / MAX_PARTS).
C23_ChunkSizeLaw ==
    chunked.chunk_size # <<>> =>
        chunked.chunk_size =
            IF BigLeq(chunked.filesize, MaxMinChunkedBytes) THEN MinChunkBytes
            ELSE RoundedUp(BigDivMod(chunked.filesize, AWS_MAX_MULTIPART_COUNT))

NamedFaults(r) == Cardinality({i \in 1..Len(r.calls) : r.calls[i] \in r.exceptions})

\* C25: retry gives up after n attempts.  A function wrapped by
\* retry(F1..Fk, number_of_attempts = n), n >= 1, is called again as long as it
\* has neither returned nor raised a named fault n times: never more than n times;
\* the n-th named fault is raised again; any other fault leaves at once; a result
\* is returned with no further call.
C25_RetryGivesUp ==
    pc = "retry" =>
        /\ Len(retrying.calls) <= retrying.number_of_attempts
        /\ \A i \in 1..(Len(retrying.calls) - 1) : retrying.calls[i] \in retrying.exceptions
        /\ retrying.outcome = "running" =>
              /\ NamedFaults(retrying) = Len(retrying.calls)
              /\ NamedFaults(retrying) < retrying.number_of_attempts
        /\ retrying.outcome = "returned" =>
              retrying.calls[Len(retrying.calls)] = "returned"
        /\ retrying.outcome \in Faults =>
              /\ retrying.calls[Len(retrying.calls)] = retrying.outcome
              /\ retrying.outcome \in retrying.exceptions =>
                    NamedFaults(retrying) = retrying.number_of_attempts

\* The last of three attempts raised a named fault, and the wrapper raised it
C25_Witness ==
    /\ pc = "retry"
    /\ retrying.number_of_attempts = 3
    /\ Len(retrying.calls) = 3
    /\ retrying.outcome \in retrying.exceptions

\* C26: a missing source of the multipart query.  For every adapter (local, S3,
\* GCS), dst.copy_from_is_multipart(src) raises BlobNotFoundError when src does not
\* exist, instead of returning a boolean.
C26_MissingSourceRaises ==
    (asked.outcome # "none" /\ ~exists(objs, asked.src)) =>
        asked.outcome = "BlobNotFoundError"

\* Every entry of a release is valid: the submission is known, every source is an
\* object of it, every destination is under the release prefix, and no source and no
\* destination is given twice
ValidRelease(b, r) ==
    /\ \E k \in DOMAIN b : startswith(k, prefix \o <<"/">> \o r.submission_id \o name_delimeter)
    /\ \A i \in 1..Len(r.transfers) :
          /\ r.transfers[i].src \in DOMAIN b
          /\ startswith(r.transfers[i].src, prefix \o <<"/">> \o r.submission_id \o name_delimeter)
          /\ startswith(r.transfers[i].dst, working \o <<"/">>)
    /\ \A i, j \in 1..Len(r.transfers) :
          i # j => /\ r.transfers[i].src # r.transfers[j].src
                   /\ r.transfers[i].dst # r.transfers[j].dst

\* C27: release validation.  release(id, src, dst, transfers) rejects the whole
\* call, before any transfer and without a manifest, when an entry is not valid;
\* when all entries are valid the call ends without exception and the source
\* bucket holds a manifest under the submission's release-transfer-manifests.
C27_ReleaseValidation ==
    released.exception # "none" =>
        IF ValidRelease(bucket, released)
        THEN /\ released.exception = "None"
             /\ \E k \in DOMAIN bucket :
                   /\ startswith(k, prefix \o <<"/">> \o released.submission_id \o name_delimeter)
                   /\ contains(k, <<"m", "a", "n", "i", "f", "e", "s", "t", "s">>)
        ELSE released.exception # "None"

\* The completions recorded by the step for transfer x
NewTuples(x) == {t \in completed' \ completed : t.src = x.src /\ t.dst = x.dst}

SyncFinished(r) ==
    \/ racers[r].exception # "None"
    \/ \A k \in DOMAIN racers[r].stage : racers[r].stage[k] \in {"done", "skipped"}

\* C29: racing syncs.  When two runs of sync(id, src, dst) are interleaved in any
\* way, neither fails because of the other, and once both have finished every object
\* of the submission is in dst with the bytes and the tags of the source object.
C29_RacingSyncs ==
    pc = "race" =>
        /\ \A r \in 1..2 : racers[r].exception = "None"
        /\ (SyncFinished(1) /\ SyncFinished(2)) =>
              \A k \in DOMAIN bucket :
                  /\ k \in DOMAIN dst_bucket
                  /\ dst_bucket[k].data = bucket[k].data
                  /\ dst_bucket[k].tags = bucket[k].tags

\* Both runs wrote and tagged an object of several parts, and both have finished
C29_Witness ==
    /\ pc = "race"
    /\ SyncFinished(1) /\ SyncFinished(2)
    /\ \E k \in DOMAIN bucket :
          /\ ~is_oneshot(k)
          /\ racers[1].stage[k] = "done"
          /\ racers[2].stage[k] = "done"

\* C30: racing uploads keep one name.  When two calls of upload for one unused
\* submission id and two names are interleaved in any way, at most one of the names
\* ends up on objects stored under the id.
C30_RacingUploads ==
    pc = "uploads" =>
        \A n1, n2 \in Names \ {<<>>} :
            n1 # n2 => KeysIn(bucket, RacedId, n1) = {} \/ KeysIn(bucket, RacedId, n2) = {}

\* C31: sync yields only transferred keys.  Every value that sync(id, src, dst)
\* yields is the key of an object this call wrote and tagged in dst; an object
\* skipped as already synced yields nothing, no None either, in the loop over the
\* listing or in the final drain.
C31_SyncYieldsWrittenKeys ==
    result = "Synced" =>
        /\ synced.nones = 0
        /\ synced.keys \subseteq synced.writes
        /\ \A k \in synced.keys : dst_bucket[k].tags = bucket[k].tags

\* C32: submission-scoped operations.  list_submission(id), get_submission_name(id)
\* and sync(id, src, dst) observe and copy only objects whose key has the form
\* submissions/<id>--<name>/... for exactly the given id; stated for sync: every
\* object a call puts to dst is an object of the submission it was called for.
C32_SubmissionScoped ==
    synced.id # <<>> => synced.writes \subseteq SubmissionKeys(bucket, synced.id)

\* C33: the S3 advisory predicate matches the copy path.  For every source size,
\* S3Blob.copy_from_is_multipart(src) is true exactly when S3Blob.copy_from(src)
\* copies part by part through a multipart writer, and false exactly when it is a
\* single CopyObject.  Stated for the intra-cloud transfers to S3: the client runs
\* the transfer on the calling thread exactly when the predicate is true.
C33_PredicateMatchesCopyPath ==
    \A i \in 1..Len(xfers) :
        (xfers[i].method = "intra" /\ xfers[i].dst.st = "s3") =>
            (~xfers[i].async <=> copy_from_uses_writer(objs, xfers[i].dst, xfers[i].src))

C35_NoNestedPoolUse ==
    /\ \A i \in 1..Len(xfers) :
          xfers[i].method # "none" =>
              /\ xfers[i].async =>
                    /\ xfers[i].method \in {"download", "intra", "oneshot"}
                    /\ ~uses_writer(objs, xfers[i])
              /\ uses_writer(objs, xfers[i]) => ~xfers[i].async
    /\ mp.i # 0 => ~xfers[mp.i].async /\ pc = "sync"

\* An intra-cloud copy through the S3 multipart writer has part uploads on the pool
C35_Witness ==
    /\ mp.i # 0
    /\ mp.inflight # {}
    /\ xfers[mp.i].method = "intra"
    /\ xfers[mp.i].dst.st = "s3"

\* C36: the enqueue path does not block on I/O.  Every transfer CopyClient.copy
\* starts is handed to the pool: the thread that called copy runs none of its
\* store operations (part fetches, part uploads, copy_from, tag reads and writes,
\* the checksum verification) and is never inside _do_copy.
C36_EnqueueNeverBlocks ==
    \A i \in 1..Len(xfers) :
        (xfers[i].op = "copy" /\ xfers[i].method # "none") => xfers[i].async

\* C37: single executor.  While no call of Executor.shutdown has been made, the
\* calls of Executor.get, however they interleave, make at most one executor and
\* all return the same one; an executor whose shutdown has returned runs no task.
C37_SingleExecutor ==
    /\ pool.shutdowns = 0 =>
          /\ pool.created <= 1
          /\ Cardinality(pool.returned) <= 1
    /\ \A e \in pool.joined : pool.tasks[e] = 0

\* C38: upload yields completed keys.  Nothing is written before the generator of
\* SSDS.upload is first iterated; a key it has yielded is the key of an object that
\* holds the bytes of its file and the SSDS_MD5 and SSDS_CRC32C tags of them; no key
\* is yielded twice; and the generator that is exhausted has yielded the key of
\* every file of the listing, once.
C38_UploadYieldsCompletedKeys ==
    LET n == Len(uploading.files)
        out == uploading.out
    IN  /\ uploading.stage = "created" => bucket = uploading.before
        /\ \A j \in 1..Len(out) :
              \E i \in 1..n :
                 /\ out[j] = ssds_key_of(i).ssds_key
                 /\ blob_key(out[j]) \in DOMAIN bucket
                 /\ bucket[blob_key(out[j])].data = uploading.files[i].data
                 /\ bucket[blob_key(out[j])].tags = ssds_tags(uploading.files[i].data)
        /\ \A j, k \in 1..Len(out) : out[j] = out[k] => j = k
        /\ uploading.stage = "done" =>
              /\ Len(out) = n
              /\ \A i \in 1..n : \E j \in 1..Len(out) : out[j] = ssds_key_of(i).ssds_key

\* An upload of three files, oneshot and multipart, that is exhausted, the key of
\* a oneshot file yielded after the key of a later multipart file
C38_Witness ==
    /\ uploading.stage = "done"
    /\ Len(uploading.out) = MaxFiles
    /\ \E i, j \in 1..MaxFiles :
          /\ i < j
          /\ Len(uploading.files[i].data) = 1
          /\ Len(uploading.files[j].data) = MaxScopeBlocks
          /\ uploading.out[MaxFiles] = ssds_key_of(i).ssds_key

\* C39: no tag access on local blobs.  No transfer of copy or copy_compute_checksums
\* verifies checksums of, or puts tags on, a local destination; and none reads the
\* tags of a local source: a local source is never copied by _copy_intra_cloud, and
\* when _do_copy comes to tags = tags or src_blob.get_tags() for it, the copy
\* function has returned the checksums it computed.
C39_NoTagAccessOnLocal ==
    \A i \in 1..Len(xfers) :
        LET x == xfers[i]
        IN  /\ x.dst.st = "local" =>
                  /\ x.method \in {"download", "none"}
                  /\ x.stage \notin {"verified", "tagged"}
            /\ x.src.st = "local" =>
                  /\ x.method # "intra"
                  /\ (x.dst.st # "local" /\ x.stage = "copied") => x.tags # EmptyTags

\* A local file copied to a cloud by the multipart passthrough has been tagged with
\* the checksums the copy computed
C39_Witness ==
    \E i \in 1..Len(xfers) :
        /\ xfers[i].src.st = "local"
        /\ xfers[i].dst.st = "s3"
        /\ xfers[i].method = "multipart"
        /\ xfers[i].stage = "tagged"
        /\ xfers[i].tags # EmptyTags

====
